---- MODULE Spec2Model ----
(***************************************************************************)
(* Model of the vmware2scw migration execution engine:                     *)
(*   pipeline/migration.py      MigrationPipeline (run, resume, dry_run,   *)
(*                              the stage handlers and the state they      *)
(*                              checkpoint);                               *)
(*   converter/windows_virtio.py  ensure_all_virtio_drivers and the        *)
(*                              registry merge it relies on.               *)
(* Spec follows one migration from run() through failures, process stops   *)
(* and resume() calls.  InjectSpec follows the inject_virtio handlers of    *)
(* two migrations sharing a host.  EngineSpec follows consecutive          *)
(* ensure_all_virtio_drivers calls on one Windows guest image.             *)
(***************************************************************************)
EXTENDS Integers, Sequences, FiniteSets, TLC

VARIABLES
    pc,        \* position of the orchestrator: idle, loop, exec, ok, fail
    op,        \* the call in progress or last returned: none, run, resume
    mid,       \* migration_id the current/last call works on
    skip,      \* plan.skip_validation of the plan given to run()
    state,     \* the in-memory MigrationState of the call in progress
    todo,      \* stages the for-loop of run/resume still has to iterate
    exc,       \* the exception raised by the handler (str(e)), or None
    store,     \* MigrationStateStore: migration_id -> persisted MigrationState
    result,    \* the MigrationResult of the last call that returned
    invoked,   \* handlers invoked by the current/last call, in order
    prior,     \* what resume() found when it started (persisted record, last result)
    env,       \* the external world the handlers act on
    resumes,   \* number of resume() calls made so far
    calls,     \* external calls made by the handler invoked last, in order
    rendered,  \* the stage list logged by the last dry_run()
    inj,       \* per migration: position and locals of a detailed _stage_inject_virtio
    mnt,       \* what is mounted at /usr/share/virtio-win (a stack of ISO images)
    eng,       \* position and locals of ensure_all_virtio_drivers
    guest,     \* the Windows guest image ensure_all_virtio_drivers works on
    enc        \* the last call of _str_to_reg_expand_sz: its argument and result

\* variables the pipeline specification leaves alone
aside == <<inj, mnt, eng, guest, enc>>

\* variables of the pipeline specification
pipeline == <<pc, op, mid, skip, state, todo, exc, store, result, invoked, prior, env,
              resumes, calls, rendered>>

vars == <<pc, op, mid, skip, state, todo, exc, store, result, invoked, prior, env,
          resumes, calls, rendered, aside>>

----------------------------------------------------------------------------
(* Bounds *)

MaxResumes == 1

MaxDisks == 2

\* external tool failures followed in ensure_all_virtio_drivers
MaxToolFailures == 3

\* consecutive ensure_all_virtio_drivers calls on one image
MaxEngineRuns == 2

----------------------------------------------------------------------------
(* Values *)

\* Python None for string-valued fields
None == "None"

\* Python None for identifier-valued fields
NoId == 0

MigrationIds == {"3f2a9c1e", "deadbeef"}

OsFamilies == {"linux", "windows"}

STAGES_docstring ==
    << "validate", "snapshot", "export", "clean_tools", "inject_virtio",
       "convert", "fix_bootloader", "fix_network",
       "upload_s3", "import_scw", "verify", "cleanup" >>

STAGES_clean_first ==
    << "validate", "snapshot", "export", "clean_tools", "inject_virtio",
       "convert", "fix_bootloader", "ensure_uefi", "fix_network",
       "upload_s3", "import_scw", "verify", "cleanup" >>

STAGES ==
    << "validate", "snapshot", "export", "convert", "clean_tools",
       "inject_virtio", "fix_bootloader", "ensure_uefi", "fix_network",
       "upload_s3", "import_scw", "verify", "cleanup" >>

----------------------------------------------------------------------------
(* Sequence helpers (list operations used by the code) *)

InSeq(x, s) == \E i \in 1..Len(s) : s[i] = x

Last(s) == s[Len(s)]

IsPrefix(s, t) == Len(s) <= Len(t) /\ SubSeq(t, 1, Len(s)) = s

NoDup(s) == \A i, j \in 1..Len(s) : i # j => s[i] # s[j]

Index(x) == CHOOSE i \in 1..Len(STAGES) : STAGES[i] = x

\* dict.get(key, default)
Get(a, k, default) == IF k \in DOMAIN a THEN a[k] ELSE default

\* dict[key] = value
Put(a, k, v) == [x \in (DOMAIN a) \cup {k} |-> IF x = k THEN v ELSE a[x]]

\* [str(p) for p in vmdk_paths]: the exported file of each of the n disks
Paths(n) == [i \in 1..n |-> <<"vmdk", i>>]

\* vmdk.with_suffix(".qcow2")
QcowOf(p) == <<"qcow2", p[2]>>

\* f"migrations/{state.migration_id}/{p.name}"
KeyOf(m, p) == <<"migrations", m, p>>

\* [f(x) for x in s]
Map(s, f(_)) == [i \in 1..Len(s) |-> f(s[i])]

\* the elements of a list, as a set
Range(s) == {s[i] : i \in 1..Len(s)}

----------------------------------------------------------------------------
(* Records *)

\* MigrationState(...) as constructed by run()
NewState(m) ==
    [ migration_id     |-> m,
      current_stage    |-> "",
      completed_stages |-> << >>,
      artifacts        |-> << >>,
      error            |-> None ]

\* no MigrationState in memory (no call in progress)
NoState == NewState("")

NoResult ==
    [ kind |-> "none", success |-> FALSE, migration_id |-> "",
      failed_stage |-> None, error |-> None, completed_stages |-> << >>,
      image_id |-> NoId, instance_id |-> NoId ]

\* MigrationResult(success=False, ...)
FailureResult(st, stage, e) ==
    [ kind |-> "failure", success |-> FALSE, migration_id |-> st.migration_id,
      failed_stage |-> stage, error |-> e,
      completed_stages |-> st.completed_stages,
      image_id |-> NoId, instance_id |-> NoId ]

\* MigrationResult(success=True, instance_id=..., image_id=...)
SuccessResult(st) ==
    [ kind |-> "success", success |-> TRUE, migration_id |-> st.migration_id,
      failed_stage |-> None, error |-> None,
      completed_stages |-> st.completed_stages,
      image_id |-> Get(st.artifacts, "scaleway_image_id", NoId),
      instance_id |-> Get(st.artifacts, "scaleway_instance_id", NoId) ]

\* MigrationResult(success=True) of resume()'s early return: no identifiers
EarlySuccessResult(st) ==
    [ kind |-> "success", success |-> TRUE, migration_id |-> st.migration_id,
      failed_stage |-> None, error |-> None,
      completed_stages |-> st.completed_stages,
      image_id |-> NoId, instance_id |-> NoId ]

\* ValueError("Migration ... not found") raised by resume()
NotFoundResult(m) == [NoResult EXCEPT !.kind = "not_found", !.migration_id = m]

\* the process stopped before the call returned
StoppedResult(m) == [NoResult EXCEPT !.kind = "stopped", !.migration_id = m]

\* nothing logged by dry_run
NoRendering == [skip_validation |-> FALSE, lines |-> << >>]

NoPrior == [found |-> FALSE, record |-> NoState, failed |-> None]

\* state_store.save(state): the full state, keyed by migration_id
Save(st, s) == [x \in (DOMAIN st) \cup {s.migration_id} |->
                    IF x = s.migration_id THEN s ELSE st[x]]

\* the world before the migration, for a VM with n disks and guest family os
InitEnv(n, os) ==
    [ vm_disks        |-> n,      \* virtual disks of the source VM
      guest_os        |-> os,     \* OS family of the source VM
      vm_snapshots    |-> 0,      \* VMware snapshots created so far
      vm_snapshot     |-> FALSE,  \* the migration snapshot exists on the VM
      vmdk            |-> {},     \* exported VMDK files present in the work dir
      qcow2           |-> {},     \* qcow2 target files present that pass the format check
      qcow2_bad       |-> {},     \* qcow2 target files present that fail the format check
      remote          |-> {},     \* objects in the bucket whose size matches the local file
      remote_bad      |-> {},     \* objects in the bucket whose size differs
      cloud_snapshots |-> 0,      \* snapshots created in the cloud so far
      cloud_images    |-> 0 ]     \* images created in the cloud so far

----------------------------------------------------------------------------
(* Stage list computations *)

StagesToRun_no_verify(skip_validation) ==
    IF skip_validation
    THEN SelectSeq(STAGES, LAMBDA s : s \notin {"validate", "verify"})
    ELSE STAGES

StagesToRun_all(skip_validation) == STAGES

\* run(): stages_to_run
StagesToRun(skip_validation) ==
    IF skip_validation
    THEN SelectSeq(STAGES, LAMBDA s : s # "validate")
    ELSE STAGES

Remaining_all(completed) == STAGES

Remaining_from_last(completed) ==
    IF completed = << >> THEN STAGES
    ELSE SelectSeq(STAGES, LAMBDA s : Index(s) >= Index(Last(completed)))

\* resume(): remaining = [s for s in STAGES if s not in completed_stages]
Remaining(completed) ==
    SelectSeq(STAGES, LAMBDA s : ~InSeq(s, completed))

----------------------------------------------------------------------------
\* the pipeline after construction, before any call
PipelineInit ==
    /\ pc = "idle"
    /\ op = "none"
    /\ mid = ""
    /\ skip = FALSE
    /\ state = NoState
    /\ todo = << >>
    /\ exc = None
    /\ store = << >>
    /\ result = NoResult
    /\ invoked = << >>
    /\ prior = NoPrior
    /\ env \in {InitEnv(n, os) : n \in 0..MaxDisks, os \in OsFamilies}
    /\ resumes = 0
    /\ calls = << >>
    /\ rendered = NoRendering

----------------------------------------------------------------------------
(* Orchestrator: run *)

\* run(plan): allocate the id, build the state, save, choose the stage list
Run(skip_validation, m) ==
    /\ pc = "idle"
    /\ DOMAIN store = {}
    /\ op' = "run"
    /\ mid' = m
    /\ skip' = skip_validation
    /\ state' = NewState(m)
    /\ store' = Save(store, NewState(m))
    /\ todo' = StagesToRun(skip_validation)
    /\ invoked' = << >>
    /\ result' = NoResult
    /\ prior' = NoPrior
    /\ exc' = None
    /\ pc' = "loop"
    /\ rendered' = NoRendering
    /\ UNCHANGED <<calls, aside, env, resumes>>

BeginStage_nosave ==
    /\ pc = "loop"
    /\ todo # << >>
    /\ state' = [state EXCEPT !.current_stage = Head(todo)]
    /\ todo' = Tail(todo)
    /\ pc' = "exec"
    /\ UNCHANGED <<calls, aside, rendered, op, mid, skip, exc, store, result, invoked, prior, env, resumes>>

\* loop head: state.current_stage = stage_name; state_store.save(state)
BeginStage ==
    /\ pc = "loop"
    /\ todo # << >>
    /\ state' = [state EXCEPT !.current_stage = Head(todo)]
    /\ store' = Save(store, state')
    /\ todo' = Tail(todo)
    /\ pc' = "exec"
    /\ UNCHANGED <<calls, aside, rendered, op, mid, skip, exc, result, invoked, prior, env, resumes>>

CompleteStage_drops_record ==
    /\ pc = "ok"
    /\ state' = [state EXCEPT !.completed_stages = Append(@, state.current_stage)]
    /\ store' = IF state.current_stage = "cleanup"
                THEN [x \in DOMAIN store \ {state.migration_id} |-> store[x]]
                ELSE Save(store, state')
    /\ pc' = "loop"
    /\ UNCHANGED <<calls, aside, rendered, op, mid, skip, todo, exc, result, invoked, prior, env, resumes>>

\* handler returned: completed_stages.append(stage_name); state_store.save(state)
CompleteStage ==
    /\ pc = "ok"
    /\ state' = [state EXCEPT !.completed_stages = Append(@, state.current_stage)]
    /\ store' = Save(store, state')
    /\ pc' = "loop"
    /\ UNCHANGED <<calls, aside, rendered, op, mid, skip, todo, exc, result, invoked, prior, env, resumes>>

FailStage_continue ==
    /\ pc = "fail"
    /\ state' = [state EXCEPT !.error = exc]
    /\ store' = Save(store, state')
    /\ exc' = None
    /\ pc' = "loop"
    /\ UNCHANGED <<calls, aside, rendered, op, mid, skip, todo, result, invoked, prior, env, resumes>>

FailStage_clears ==
    /\ pc = "fail"
    /\ store' = Save(store, [state EXCEPT !.error = exc, !.current_stage = ""])
    /\ result' = FailureResult(state, state.current_stage, exc)
    /\ state' = NoState
    /\ todo' = << >>
    /\ exc' = None
    /\ pc' = "idle"
    /\ UNCHANGED <<calls, aside, rendered, op, mid, skip, invoked, prior, env, resumes>>

FailStage_rolls_back ==
    /\ pc = "fail"
    /\ store' = Save(store, [state EXCEPT !.error = exc, !.artifacts = << >>])
    /\ result' = FailureResult(state, state.current_stage, exc)
    /\ invoked' = Append(invoked, "cleanup")
    /\ state' = NoState
    /\ todo' = << >>
    /\ exc' = None
    /\ pc' = "idle"
    /\ UNCHANGED <<calls, aside, rendered, op, mid, skip, prior, env, resumes>>

\* except Exception: state.error = str(e); save; return MigrationResult(success=False)
FailStage ==
    /\ pc = "fail"
    /\ store' = Save(store, [state EXCEPT !.error = exc])
    /\ result' = FailureResult(state, state.current_stage, exc)
    /\ state' = NoState
    /\ todo' = << >>
    /\ exc' = None
    /\ pc' = "idle"
    /\ UNCHANGED <<calls, aside, rendered, op, mid, skip, invoked, prior, env, resumes>>

\* the for loop is exhausted: return MigrationResult(success=True, ...)
ReturnSuccess ==
    /\ pc = "loop"
    /\ todo = << >>
    /\ result' = SuccessResult(state)
    /\ state' = NoState
    /\ pc' = "idle"
    /\ UNCHANGED <<calls, aside, rendered, op, mid, skip, todo, exc, store, invoked, prior, env, resumes>>

----------------------------------------------------------------------------
(* Orchestrator: resume *)

\* resume(migration_id)
Resume_creates(m) ==
    /\ pc = "idle"
    /\ resumes < MaxResumes
    /\ resumes' = resumes + 1
    /\ op' = "resume"
    /\ mid' = m
    /\ invoked' = << >>
    /\ exc' = None
    /\ IF m \notin DOMAIN store
       THEN /\ result' = NotFoundResult(m)
            /\ prior' = NoPrior
            /\ store' = Save(store, NewState(m))
            /\ UNCHANGED <<pc, state, todo>>
       ELSE LET st == store[m]
                remaining == Remaining(st.completed_stages)
            IN  /\ prior' = [found  |-> TRUE,
                             record |-> st,
                             failed |-> IF result.kind = "failure"
                                        THEN result.failed_stage ELSE None]
                /\ store' = store
                /\ IF remaining = << >>
                   THEN /\ result' = EarlySuccessResult(st)
                        /\ UNCHANGED <<pc, state, todo>>
                   ELSE /\ state' = [st EXCEPT !.error = None]
                        /\ todo' = remaining
                        /\ result' = NoResult
                        /\ pc' = "loop"
    /\ rendered' = NoRendering
    /\ UNCHANGED <<calls, aside, skip, env>>

Resume_keeps_error(m) ==
    /\ pc = "idle"
    /\ resumes < MaxResumes
    /\ resumes' = resumes + 1
    /\ op' = "resume"
    /\ mid' = m
    /\ invoked' = << >>
    /\ exc' = None
    /\ IF m \notin DOMAIN store
       THEN /\ result' = NotFoundResult(m)
            /\ prior' = NoPrior
            /\ UNCHANGED <<pc, state, todo>>
       ELSE LET st == store[m]
                remaining == Remaining(st.completed_stages)
            IN  /\ prior' = [found  |-> TRUE,
                             record |-> st,
                             failed |-> IF result.kind = "failure"
                                        THEN result.failed_stage ELSE None]
                /\ IF remaining = << >>
                   THEN /\ result' = EarlySuccessResult(st)
                        /\ UNCHANGED <<pc, state, todo>>
                   ELSE /\ state' = st
                        /\ todo' = remaining
                        /\ result' = NoResult
                        /\ pc' = "loop"
    /\ rendered' = NoRendering
    /\ UNCHANGED <<calls, aside, skip, store, env>>

Resume(m) ==
    /\ pc = "idle"
    /\ resumes < MaxResumes
    /\ resumes' = resumes + 1
    /\ op' = "resume"
    /\ mid' = m
    /\ invoked' = << >>
    /\ exc' = None
    /\ IF m \notin DOMAIN store
       THEN /\ result' = NotFoundResult(m)
            /\ prior' = NoPrior
            /\ UNCHANGED <<pc, state, todo>>
       ELSE LET st == store[m]
                remaining == Remaining(st.completed_stages)
            IN  /\ prior' = [found  |-> TRUE,
                             record |-> st,
                             failed |-> IF result.kind = "failure"
                                        THEN result.failed_stage ELSE None]
                /\ IF remaining = << >>
                   THEN /\ result' = EarlySuccessResult(st)
                        /\ UNCHANGED <<pc, state, todo>>
                   ELSE /\ state' = [st EXCEPT !.error = None]
                        /\ todo' = remaining
                        /\ result' = NoResult
                        /\ pc' = "loop"
    /\ rendered' = NoRendering
    /\ UNCHANGED <<calls, aside, skip, store, env>>

\* the process stops (kill, power loss) while a call is in progress
Stop ==
    /\ pc # "idle"
    /\ pc' = "idle"
    /\ state' = NoState
    /\ todo' = << >>
    /\ exc' = None
    /\ result' = StoppedResult(mid)
    /\ UNCHANGED <<calls, aside, rendered, op, mid, skip, store, invoked, prior, env, resumes>>

----------------------------------------------------------------------------
(* Orchestrator: dry_run *)

\* one logged line: "  {i}. {stage}" with or without "(skipped)"
Line(i, stage, skipped) == [n |-> i, stage |-> stage, skipped |-> skipped]

DryRun_lists_run(skip_validation) ==
    /\ pc = "idle"
    /\ rendered' =
          [ skip_validation |-> skip_validation,
            lines |-> [i \in 1..Len(StagesToRun(skip_validation)) |->
                          Line(i, StagesToRun(skip_validation)[i], FALSE)] ]
    /\ UNCHANGED <<pc, op, mid, skip, state, todo, exc, store, result, invoked, prior,
                   env, resumes, calls, aside>>

\* dry_run(plan): log every stage of STAGES, validate marked when skipped
DryRun(skip_validation) ==
    /\ pc = "idle"
    /\ rendered' =
          [ skip_validation |-> skip_validation,
            lines |-> [i \in 1..Len(STAGES) |->
                          Line(i, STAGES[i],
                               skip_validation /\ STAGES[i] = "validate")] ]
    /\ UNCHANGED <<pc, op, mid, skip, state, todo, exc, store, result, invoked, prior,
                   env, resumes, calls, aside>>

----------------------------------------------------------------------------
(* Stage executor and handlers *)

\* _execute_stage: handler = getattr(self, "_stage_" + stage); handler(plan, state)
Dispatch(stage) ==
    /\ pc = "exec"
    /\ state.current_stage = stage
    /\ invoked' = Append(invoked, stage)
    /\ UNCHANGED <<op, mid, skip, todo, store, result, prior, resumes, rendered, aside>>

\* the handler returns normally, having left arts in state.artifacts
Returns(arts) ==
    /\ state' = [state EXCEPT !.artifacts = arts]
    /\ exc' = None
    /\ pc' = "ok"

\* the handler raises msg, having left arts in state.artifacts
Raises(arts, msg) ==
    /\ state' = [state EXCEPT !.artifacts = arts]
    /\ exc' = msg
    /\ pc' = "fail"

\* the names s for which the class defines a method _stage_<s>
Handlers ==
    { "validate", "snapshot", "export", "clean_tools", "inject_virtio",
      "convert", "fix_bootloader", "ensure_uefi", "fix_network",
      "upload_s3", "import_scw", "verify", "cleanup" }

\* a stage name for which the class defines no method
NoSuchStage == "rollback"

ExecuteUnhandled_returns ==
    /\ pc = "exec"
    /\ state.current_stage \notin Handlers
    /\ exc' = None
    /\ pc' = "ok"
    /\ UNCHANGED <<state, invoked, calls, env>>
    /\ UNCHANGED <<op, mid, skip, todo, store, result, prior, resumes, rendered, aside>>

\* _execute_stage: getattr(...) is None: raise NotImplementedError(...)
ExecuteUnhandled ==
    /\ pc = "exec"
    /\ state.current_stage \notin Handlers
    /\ exc' = "Stage not implemented yet"
    /\ pc' = "fail"
    /\ UNCHANGED <<state, invoked, calls, env>>
    /\ UNCHANGED <<op, mid, skip, todo, store, result, prior, resumes, rendered, aside>>

\* mapper.get_os_family(vm_info.get("guest_os", default))
OsFamily(arts, default) == Get(arts, "vm_info", default)

StageValidate ==
    /\ Dispatch("validate")
    /\ UNCHANGED env
    /\ \/ /\ Raises(state.artifacts, "vSphere connection failed")
          /\ calls' = <<"connect">>
       \/ /\ Raises(Put(state.artifacts, "vm_info", env.guest_os), "Pre-validation failed")
          /\ calls' = <<"connect", "get_vm_info", "disconnect">>
       \/ /\ Returns(Put(state.artifacts, "vm_info", env.guest_os))
          /\ calls' = <<"connect", "get_vm_info", "disconnect">>

StageSnapshot ==
    /\ Dispatch("snapshot")
    /\ \/ /\ Raises(state.artifacts, "vSphere connection failed")
          /\ calls' = <<"connect">>
          /\ UNCHANGED env
       \/ /\ env' = [env EXCEPT !.vm_snapshots = @ + 1, !.vm_snapshot = TRUE]
          /\ calls' = <<"connect", "create_migration_snapshot", "disconnect">>
          /\ Returns(Put(state.artifacts, "snapshot_name", state.migration_id))

StageExport ==
    /\ Dispatch("export")
    /\ \/ /\ Raises(state.artifacts, "export failed")
          /\ calls' = <<"connect", "export_vm_disks">>
          /\ UNCHANGED env
       \/ /\ env' = [env EXCEPT !.vmdk = Range(Paths(env.vm_disks))]
          /\ calls' = <<"connect", "export_vm_disks", "disconnect">>
          /\ Returns(Put(state.artifacts, "vmdk_paths", Paths(env.vm_disks)))

\* converter.convert(vmdk, qcow2_path, ...) for each vmdk of s
ConvertCalls(s) == Map(s, LAMBDA p : <<"convert", p, QcowOf(p)>>)

\* vmdk.unlink() for each vmdk of s
UnlinkCalls(s) == Map(s, LAMBDA p : <<"unlink", p>>)

StageConvert_always ==
    /\ Dispatch("convert")
    /\ LET paths  == Get(state.artifacts, "vmdk_paths", << >>)
           needed == paths
       IN  \/ \E k \in 1..Len(needed), partial \in BOOLEAN :
                \* the k-th conversion raises
                LET done == {QcowOf(needed[i]) : i \in 1..(k - 1)}
                    left == IF partial THEN {QcowOf(needed[k])} ELSE {}
                IN  /\ env' = [env EXCEPT
                                 !.qcow2 = @ \cup done,
                                 !.qcow2_bad = ((@ \ done) \ {QcowOf(needed[k])}) \cup left]
                    /\ calls' = ConvertCalls(SubSeq(needed, 1, k))
                    /\ Raises(state.artifacts, "qemu-img convert failed")
           \/ LET targets == {QcowOf(paths[i]) : i \in 1..Len(paths)}
              IN  /\ Range(needed) \subseteq env.vmdk
                  /\ env' = [env EXCEPT !.qcow2 = @ \cup targets,
                                        !.qcow2_bad = @ \ targets,
                                        !.vmdk = @ \ Range(paths)]
                  /\ calls' = ConvertCalls(needed)
                                \o UnlinkCalls(SelectSeq(paths, LAMBDA p : p \in env.vmdk))
                  /\ Returns(Put(state.artifacts, "qcow2_paths", Map(paths, QcowOf)))

StageConvert_unlinks_as_it_goes ==
    /\ Dispatch("convert")
    /\ LET paths  == Get(state.artifacts, "vmdk_paths", << >>)
           \* not (qcow2_path.exists() and converter.check(qcow2_path))
           needed == SelectSeq(paths, LAMBDA p : QcowOf(p) \notin env.qcow2)
       IN  \/ \E k \in 1..Len(needed), partial \in BOOLEAN :
                \* the k-th conversion raises
                LET done == {QcowOf(needed[i]) : i \in 1..(k - 1)}
                    left == IF partial THEN {QcowOf(needed[k])} ELSE {}
                IN  /\ env' = [env EXCEPT
                                 !.qcow2 = @ \cup done,
                                 !.qcow2_bad = ((@ \ done) \ {QcowOf(needed[k])}) \cup left,
                                 !.vmdk = @ \ {needed[i] : i \in 1..(k - 1)}]
                    /\ calls' = ConvertCalls(SubSeq(needed, 1, k))
                                  \o UnlinkCalls(SubSeq(needed, 1, k - 1))
                    /\ Raises(state.artifacts, "qemu-img convert failed")
           \/ LET targets == {QcowOf(paths[i]) : i \in 1..Len(paths)}
              IN  /\ Range(needed) \subseteq env.vmdk
                  /\ env' = [env EXCEPT !.qcow2 = @ \cup targets,
                                        !.qcow2_bad = @ \ targets,
                                        !.vmdk = @ \ Range(paths)]
                  /\ calls' = ConvertCalls(needed)
                                \o UnlinkCalls(SelectSeq(paths, LAMBDA p : p \in env.vmdk))
                  /\ Returns(Put(state.artifacts, "qcow2_paths", Map(paths, QcowOf)))

StageConvert ==
    /\ Dispatch("convert")
    /\ LET paths  == Get(state.artifacts, "vmdk_paths", << >>)
           \* not (qcow2_path.exists() and converter.check(qcow2_path))
           needed == SelectSeq(paths, LAMBDA p : QcowOf(p) \notin env.qcow2)
       IN  \/ \E k \in 1..Len(needed), partial \in BOOLEAN :
                \* the k-th conversion raises
                LET done == {QcowOf(needed[i]) : i \in 1..(k - 1)}
                    left == IF partial THEN {QcowOf(needed[k])} ELSE {}
                IN  /\ env' = [env EXCEPT
                                 !.qcow2 = @ \cup done,
                                 !.qcow2_bad = ((@ \ done) \ {QcowOf(needed[k])}) \cup left]
                    /\ calls' = ConvertCalls(SubSeq(needed, 1, k))
                    /\ Raises(state.artifacts, "qemu-img convert failed")
           \/ LET targets == {QcowOf(paths[i]) : i \in 1..Len(paths)}
              IN  /\ Range(needed) \subseteq env.vmdk
                  /\ env' = [env EXCEPT !.qcow2 = @ \cup targets,
                                        !.qcow2_bad = @ \ targets,
                                        !.vmdk = @ \ Range(paths)]
                  /\ calls' = ConvertCalls(needed)
                                \o UnlinkCalls(SelectSeq(paths, LAMBDA p : p \in env.vmdk))
                  /\ Returns(Put(state.artifacts, "qcow2_paths", Map(paths, QcowOf)))

StageCleanTools_always ==
    /\ Dispatch("clean_tools")
    /\ UNCHANGED env
    /\ calls' = <<"virt-customize">>
    /\ \/ Returns(state.artifacts)
       \/ Raises(state.artifacts, "virt-customize failed")

StageCleanTools ==
    /\ Dispatch("clean_tools")
    /\ UNCHANGED env
    /\ IF Get(state.artifacts, "qcow2_paths", << >>) = << >>
       THEN /\ Returns(state.artifacts)
            /\ calls' = << >>
       ELSE /\ calls' = <<"virt-customize">>
            /\ \/ Returns(state.artifacts)
               \/ Raises(state.artifacts, "virt-customize failed")

StageInjectVirtio ==
    /\ Dispatch("inject_virtio")
    /\ UNCHANGED env
    /\ IF Get(state.artifacts, "qcow2_paths", << >>) = << >>
       THEN /\ Returns(state.artifacts)
            /\ calls' = << >>
       ELSE /\ calls' = <<"check_tool_available", "inject">>
            /\ \/ Returns(state.artifacts)
               \/ Raises(state.artifacts, "virtio injection failed")

StageFixBootloader ==
    /\ Dispatch("fix_bootloader")
    /\ UNCHANGED env
    /\ Returns(state.artifacts)
    /\ calls' = IF \/ Get(state.artifacts, "qcow2_paths", << >>) = << >>
                   \/ OsFamily(state.artifacts, "") = "windows"
                THEN << >>
                ELSE <<"virt-customize">>

StageEnsureUefi ==
    /\ Dispatch("ensure_uefi")
    /\ UNCHANGED env
    /\ IF Get(state.artifacts, "qcow2_paths", << >>) = << >>
       THEN /\ Returns(state.artifacts)
            /\ calls' = << >>
       ELSE \/ /\ calls' = <<"detect_boot_type">>
               /\ \/ Returns(state.artifacts)
                  \/ Raises(state.artifacts, "boot type detection failed")
            \/ /\ OsFamily(state.artifacts, "") # "windows"
               /\ calls' = <<"detect_boot_type", "convert_bios_to_uefi">>
               /\ \/ Returns(state.artifacts)
                  \/ Raises(state.artifacts, "BIOS to UEFI conversion failed")

StageFixNetwork ==
    /\ Dispatch("fix_network")
    /\ UNCHANGED env
    /\ calls' = << >>
    /\ Returns(state.artifacts)

\* s3.upload_image(qcow2_path, bucket, key) for each path of s
UploadCalls(m, s) == Map(s, LAMBDA p : <<"upload_image", p, KeyOf(m, p)>>)

StageUploadS3_always ==
    /\ Dispatch("upload_s3")
    /\ LET m     == state.migration_id
           paths == Get(state.artifacts, "qcow2_paths", << >>)
           keys  == {KeyOf(m, paths[i]) : i \in 1..Len(paths)}
       IN  /\ env' = [env EXCEPT !.remote = @ \cup keys, !.remote_bad = @ \ keys]
           /\ calls' = <<"create_bucket_if_not_exists">> \o UploadCalls(m, paths)
           /\ Returns(Put(Put(state.artifacts, "s3_keys",
                              Map(paths, LAMBDA p : KeyOf(m, p))),
                          "s3_bucket", "bucket"))

StageUploadS3 ==
    /\ Dispatch("upload_s3")
    /\ LET m      == state.migration_id
           paths  == Get(state.artifacts, "qcow2_paths", << >>)
           \* not (check_object_exists and remote_size == local_size)
           needed == SelectSeq(paths, LAMBDA p : KeyOf(m, p) \notin env.remote)
       IN  \/ /\ Raises(state.artifacts, "bucket creation failed")
              /\ calls' = <<"create_bucket_if_not_exists">>
              /\ UNCHANGED env
           \/ \E k \in 1..Len(needed), partial \in BOOLEAN :
                \* the k-th upload raises
                LET done == {KeyOf(m, needed[i]) : i \in 1..(k - 1)}
                    left == IF partial THEN {KeyOf(m, needed[k])} ELSE {}
                IN  /\ env' = [env EXCEPT
                                 !.remote = @ \cup done,
                                 !.remote_bad = (@ \ done) \cup left]
                    /\ calls' = <<"create_bucket_if_not_exists">>
                                  \o UploadCalls(m, SubSeq(needed, 1, k))
                    /\ Raises(state.artifacts, "upload failed")
           \/ LET keys == {KeyOf(m, paths[i]) : i \in 1..Len(paths)}
              IN  /\ env' = [env EXCEPT !.remote = @ \cup keys, !.remote_bad = @ \ keys]
                  /\ calls' = <<"create_bucket_if_not_exists">> \o UploadCalls(m, needed)
                  /\ Returns(Put(Put(state.artifacts, "s3_keys",
                                     Map(paths, LAMBDA p : KeyOf(m, p))),
                                 "s3_bucket", "bucket"))

StageImportScw_nocheck ==
    /\ Dispatch("import_scw")
    /\ LET snapshot_id == env.cloud_snapshots + 1
           image_id    == env.cloud_images + 1
           recorded    == Put(state.artifacts, "scaleway_snapshot_id", snapshot_id)
       IN  /\ env' = [env EXCEPT !.cloud_snapshots = snapshot_id,
                                 !.cloud_images = image_id]
           /\ calls' = <<"create_snapshot_from_s3", "wait_for_snapshot", "create_image">>
           /\ Returns(Put(recorded, "scaleway_image_id", image_id))

StageImportScw ==
    /\ Dispatch("import_scw")
    /\ IF "s3_bucket" \notin DOMAIN state.artifacts
       THEN /\ Raises(state.artifacts, "KeyError: s3_bucket")
            /\ calls' = << >>
            /\ UNCHANGED env
       ELSE IF Get(state.artifacts, "s3_keys", << >>) = << >>
       THEN /\ Raises(state.artifacts, "No S3 keys found")
            /\ calls' = << >>
            /\ UNCHANGED env
       ELSE LET snapshot_id == env.cloud_snapshots + 1
                image_id    == env.cloud_images + 1
                recorded    == Put(state.artifacts, "scaleway_snapshot_id", snapshot_id)
            IN  \/ /\ Raises(state.artifacts, "snapshot creation failed")
                   /\ calls' = <<"create_snapshot_from_s3">>
                   /\ UNCHANGED env
                \/ /\ env' = [env EXCEPT !.cloud_snapshots = snapshot_id]
                   /\ calls' = <<"create_snapshot_from_s3", "wait_for_snapshot">>
                   /\ Raises(recorded, "snapshot not ready or image creation failed")
                \/ /\ env' = [env EXCEPT !.cloud_snapshots = snapshot_id,
                                         !.cloud_images = image_id]
                   /\ calls' = <<"create_snapshot_from_s3", "wait_for_snapshot",
                                 "create_image">>
                   /\ Returns(Put(recorded, "scaleway_image_id", image_id))

StageVerify ==
    /\ Dispatch("verify")
    /\ UNCHANGED env
    /\ calls' = << >>
    /\ Returns(state.artifacts)

StageCleanup_unconfirmed ==
    /\ Dispatch("cleanup")
    /\ Returns(state.artifacts)
    /\ LET s3_keys   == Get(state.artifacts, "s3_keys", << >>)
           confirmed == /\ s3_keys # << >>
                        /\ "s3_bucket" \in DOMAIN state.artifacts
           named     == "snapshot_name" \in DOMAIN state.artifacts
       IN  \E snap_deleted, s3_deleted \in BOOLEAN :
             /\ env' = [env EXCEPT
                          !.vmdk = {},
                          !.qcow2 = {},
                          !.qcow2_bad = {},
                          !.vm_snapshot = IF named /\ snap_deleted THEN FALSE ELSE @,
                          !.remote =
                              IF confirmed /\ s3_deleted THEN @ \ Range(s3_keys) ELSE @,
                          !.remote_bad =
                              IF confirmed /\ s3_deleted THEN @ \ Range(s3_keys) ELSE @]
             /\ calls' = <<"rmtree">>
                  \o (IF named THEN <<"delete_migration_snapshot">> ELSE << >>)
                  \o (IF confirmed
                      THEN Map(s3_keys, LAMBDA k : <<"delete_object", k>>)
                      ELSE << >>)

StageCleanup ==
    /\ Dispatch("cleanup")
    /\ Returns(state.artifacts)
    /\ LET s3_keys   == Get(state.artifacts, "s3_keys", << >>)
           confirmed == /\ Get(state.artifacts, "scaleway_image_id", NoId) # NoId
                        /\ s3_keys # << >>
                        /\ "s3_bucket" \in DOMAIN state.artifacts
           named     == "snapshot_name" \in DOMAIN state.artifacts
       IN  \E snap_deleted, s3_deleted \in BOOLEAN :
             /\ env' = [env EXCEPT
                          !.vmdk = {},
                          !.qcow2 = {},
                          !.qcow2_bad = {},
                          !.vm_snapshot = IF named /\ snap_deleted THEN FALSE ELSE @,
                          !.remote =
                              IF confirmed /\ s3_deleted THEN @ \ Range(s3_keys) ELSE @,
                          !.remote_bad =
                              IF confirmed /\ s3_deleted THEN @ \ Range(s3_keys) ELSE @]
             /\ calls' = <<"rmtree">>
                  \o (IF named THEN <<"delete_migration_snapshot">> ELSE << >>)
                  \o (IF confirmed
                      THEN Map(s3_keys, LAMBDA k : <<"delete_object", k>>)
                      ELSE << >>)

----------------------------------------------------------------------------
(* _stage_inject_virtio step by step, for two migrations running on one host *)

\* conversion.virtio_win_iso of a configuration
VirtioIsos == {"virtio-win-0.1.229.iso", "virtio-win-0.1.240.iso"}

\* v2v_syntaxes
V2vSyntaxes == <<"qemu -oc qcow2", "qemu --block-driver", "local">>

\* mount_dir = Path("/usr/share/virtio-win"): the same path for every migration
MountDir == "/usr/share/virtio-win"

\* the locals of one _stage_inject_virtio call; image is the ISO the call has
\* mounted and not yet unmounted itself (None when it has none); installed is
\* check_tool_available("virt-v2v"); tried lists the virt-v2v attempts that
\* have ended; fallback and replaced tell whether _inject_virtio_fallback was
\* called and whether the boot disk was replaced by the output of virt-v2v
InjLocals(iso) ==
    [ pc |-> "idle", os_family |-> "", virtio_iso |-> iso, mounted_virtio |-> FALSE,
      image |-> None, i |-> 0, v2v_ok |-> FALSE,
      installed |-> FALSE, tried |-> << >>, fallback |-> FALSE, replaced |-> FALSE ]

\* one virt-v2v attempt that has ended
Attempt(syntax, ok) == [syntax |-> syntax, ok |-> ok]

\* one mount at MountDir
Mount(p, iso) == [owner |-> p, image |-> iso, dir |-> MountDir]

\* `umount <dir>` detaches the mount made last at dir
Umounted(m) == SubSeq(m, 1, Len(m) - 1)

\* no _stage_inject_virtio call is in progress
InjectIdle ==
    /\ inj = [p \in MigrationIds |-> InjLocals(CHOOSE iso \in VirtioIsos : TRUE)]
    /\ mnt = << >>

\* lines 352-386 up to the first external command
InjBegin(p, os, installed, iso_exists) ==
    /\ inj[p].pc = "idle"
    /\ inj' = [inj EXCEPT ![p].os_family = os,
                          ![p].installed = installed,
                          ![p].i = IF installed /\ os # "windows" THEN 1 ELSE 0,
                          ![p].pc =
                              IF ~installed THEN "fallback"
                              ELSE IF os # "windows" THEN "v2v"
                              ELSE IF ~iso_exists THEN "raised"
                              ELSE "umount_stale"]
    /\ UNCHANGED <<mnt, pipeline, eng, guest, enc>>

\* subprocess.run(["umount", mount_dir], check=False): returns, whatever the
\* exit status; a mount in use is detached or not (EBUSY)
InjUmountStale(p) ==
    /\ inj[p].pc = "umount_stale"
    /\ inj' = [inj EXCEPT ![p].pc = "mount"]
    /\ \/ mnt # << >> /\ mnt' = Umounted(mnt)
       \/ mnt' = mnt
    /\ UNCHANGED <<pipeline, eng, guest, enc>>

\* subprocess.run(["mount", "-o", "loop,ro", iso, mount_dir], check=False);
\* mounted_virtio = True whatever the exit status
InjMount(p) ==
    /\ inj[p].pc = "mount"
    /\ \/ /\ mnt' = Append(mnt, Mount(p, inj[p].virtio_iso))
          /\ inj' = [inj EXCEPT ![p].pc = "v2v", ![p].i = 1,
                                ![p].mounted_virtio = TRUE,
                                ![p].image = inj[p].virtio_iso]
       \/ /\ mnt' = mnt
          /\ inj' = [inj EXCEPT ![p].pc = "v2v", ![p].i = 1,
                                ![p].mounted_virtio = TRUE]
    /\ UNCHANGED <<pipeline, eng, guest, enc>>

\* subprocess.run without timeout: the umount or mount child never returns
InjHang(p) ==
    /\ inj[p].pc \in {"umount_stale", "mount", "umount_after"}
    /\ inj' = [inj EXCEPT ![p].pc = "hung"]
    /\ UNCHANGED <<mnt, pipeline, eng, guest, enc>>

\* run_command(cmd, env=env, timeout=3600) starts virt-v2v with syntax i
InjV2vStart(p) ==
    /\ inj[p].pc = "v2v"
    /\ inj' = [inj EXCEPT ![p].pc = "v2v_running"]
    /\ UNCHANGED <<mnt, pipeline, eng, guest, enc>>

InjV2vEnd_gives_up(p) ==
    /\ inj[p].pc = "v2v_running"
    /\ LET after  == IF inj[p].mounted_virtio THEN "umount_after" ELSE "finish"
           syntax == V2vSyntaxes[inj[p].i]
       IN  \/ inj' = [inj EXCEPT ![p].v2v_ok = TRUE, ![p].pc = after,
                                 ![p].tried = Append(@, Attempt(syntax, TRUE))]
           \/ inj' = [inj EXCEPT
                        ![p].tried = Append(@, Attempt(syntax, FALSE)),
                        ![p].pc = after]
    /\ UNCHANGED <<mnt, pipeline, eng, guest, enc>>

\* virt-v2v ends: success breaks the loop; an error or the timeout is caught
\* and the next syntax is tried
InjV2vEnd(p) ==
    /\ inj[p].pc = "v2v_running"
    /\ LET after  == IF inj[p].mounted_virtio THEN "umount_after" ELSE "finish"
           syntax == V2vSyntaxes[inj[p].i]
       IN  \/ inj' = [inj EXCEPT ![p].v2v_ok = TRUE, ![p].pc = after,
                                 ![p].tried = Append(@, Attempt(syntax, TRUE))]
           \/ inj' = [inj EXCEPT
                        ![p].tried = Append(@, Attempt(syntax, FALSE)),
                        ![p].i = IF @ < Len(V2vSyntaxes) THEN @ + 1 ELSE @,
                        ![p].pc = IF inj[p].i < Len(V2vSyntaxes) THEN "v2v" ELSE after]
    /\ UNCHANGED <<mnt, pipeline, eng, guest, enc>>

\* if mounted_virtio: subprocess.run(["umount", "/usr/share/virtio-win"], check=False)
InjUmountAfter(p) ==
    /\ inj[p].pc = "umount_after"
    /\ inj' = [inj EXCEPT ![p].pc = "finish", ![p].image = None]
    /\ \/ mnt # << >> /\ mnt' = Umounted(mnt)
       \/ mnt' = mnt
    /\ UNCHANGED <<pipeline, eng, guest, enc>>

\* after the loop: the fallback when no syntax succeeded, else the output of
\* virt-v2v replaces the boot disk (or none is found and the handler raises)
InjFinish(p) ==
    /\ inj[p].pc = "finish"
    /\ \/ ~inj[p].v2v_ok /\ inj' = [inj EXCEPT ![p].pc = "fallback"]
       \/ inj[p].v2v_ok /\ inj' = [inj EXCEPT ![p].pc = "returned", ![p].replaced = TRUE]
       \/ inj[p].v2v_ok /\ inj' = [inj EXCEPT ![p].pc = "raised"]
    /\ UNCHANGED <<mnt, pipeline, eng, guest, enc>>

\* _inject_virtio_fallback: injector.inject(boot_disk, os_family)
InjFallback(p) ==
    /\ inj[p].pc = "fallback"
    /\ \/ inj' = [inj EXCEPT ![p].pc = "returned", ![p].fallback = TRUE]
       \/ inj' = [inj EXCEPT ![p].pc = "raised", ![p].fallback = TRUE]
    /\ UNCHANGED <<mnt, pipeline, eng, guest, enc>>

\* one step of the _stage_inject_virtio call of migration p
InjStep(p) ==
    \/ \E os \in OsFamilies, installed, iso_exists \in BOOLEAN :
          InjBegin(p, os, installed, iso_exists)
    \/ InjUmountStale(p)
    \/ InjMount(p)
    \/ InjHang(p)
    \/ InjV2vStart(p)
    \/ InjV2vEnd(p)
    \/ InjUmountAfter(p)
    \/ InjFinish(p)
    \/ InjFallback(p)

----------------------------------------------------------------------------
(* converter/windows_virtio.py: ensure_all_virtio_drivers on one guest image *)

DriverNames == {"viostor", "vioscsi", "netkvm"}

\* sorted(drivers_to_register)
SortedDrivers == <<"netkvm", "vioscsi", "viostor">>

DRIVER_DEFS ==
    [ d \in DriverNames |->
        [ Group     |-> IF d = "netkvm" THEN "NDIS" ELSE "SCSI miniport",
          ImagePath |-> CASE d = "viostor" -> "system32\\drivers\\viostor.sys"
                          [] d = "vioscsi" -> "system32\\drivers\\vioscsi.sys"
                          [] d = "netkvm"  -> "system32\\drivers\\netkvm.sys",
          Start |-> "00000000", Type |-> "00000001", ErrorControl |-> "00000001",
          Tag   |-> CASE d = "viostor" -> "00000040"
                      [] d = "vioscsi" -> "00000041"
                      [] d = "netkvm"  -> None,
          iso_dir |-> IF d = "netkvm" THEN "NetKVM" ELSE d ] ]

\* driver sets found on the virtio-win ISO given to the engine
IsoContents == {DriverNames, {"viostor", "netkvm"}}

\* sets of interface GUIDs found in the guest's Tcpip parameters
GuidSets ==
    { {},
      {"{4d36e972-e325-11ce-bfc1-08002be10318}"},
      {"{4d36e972-e325-11ce-bfc1-08002be10318}", "{a1b2c3d4-0000-4f4f-9e9e-0123456789ab}"} }

\* "/Program Files/Guestfs/Firstboot/scripts/0000-install-virtio-drivers.bat"
FirstbootPath ==
    <<"Program Files", "Guestfs", "Firstboot", "scripts", "0000-install-virtio-drivers.bat">>

\* one value line of a .reg section: "name"=type:data
RegValue(name, type, data) == <<name, type, data>>

\* base = HKEY_LOCAL_MACHINE\SYSTEM\ControlSet001\Services\<drv_name>
ServiceKey(d) == <<"ControlSet001", "Services", d>>

DriverSections_child_first(d) ==
    LET drv  == DRIVER_DEFS[d]
        base == ServiceKey(d)
    IN  << [ key    |-> base,
             values |-> { RegValue("Group", "sz", drv.Group),
                          RegValue("ImagePath", "hex(2)", drv.ImagePath),
                          RegValue("ErrorControl", "dword", drv.ErrorControl),
                          RegValue("Start", "dword", drv.Start),
                          RegValue("Type", "dword", drv.Type) }
                        \cup (IF drv.Tag # None
                              THEN {RegValue("Tag", "dword", drv.Tag)}
                              ELSE {}) ],
           [ key    |-> base \o <<"Parameters", "PnpInterface">>,
             values |-> {RegValue("5", "dword", "00000001")} ],
           [ key |-> Append(base, "Parameters"), values |-> {} ],
           [ key    |-> Append(base, "Enum"),
             values |-> { RegValue("Count", "dword", "00000000"),
                          RegValue("NextInstance", "dword", "00000000") } ] >>

\* the four sections _build_driver_reg writes for driver d, parent before child
DriverSections(d) ==
    LET drv  == DRIVER_DEFS[d]
        base == ServiceKey(d)
    IN  << [ key    |-> base,
             values |-> { RegValue("Group", "sz", drv.Group),
                          RegValue("ImagePath", "hex(2)", drv.ImagePath),
                          RegValue("ErrorControl", "dword", drv.ErrorControl),
                          RegValue("Start", "dword", drv.Start),
                          RegValue("Type", "dword", drv.Type) }
                        \cup (IF drv.Tag # None
                              THEN {RegValue("Tag", "dword", drv.Tag)}
                              ELSE {}) ],
           [ key |-> Append(base, "Parameters"), values |-> {} ],
           [ key    |-> base \o <<"Parameters", "PnpInterface">>,
             values |-> {RegValue("5", "dword", "00000001")} ],
           [ key    |-> Append(base, "Enum"),
             values |-> { RegValue("Count", "dword", "00000000"),
                          RegValue("NextInstance", "dword", "00000000") } ] >>

\* _build_driver_reg(drivers_to_register): the sections of the patch, in order
BuildDriverReg(drivers) ==
    LET ds == SelectSeq(SortedDrivers, LAMBDA d : d \in drivers)
        n  == Len(DriverSections("viostor"))
    IN  [ i \in 1..(n * Len(ds)) |->
            DriverSections(ds[((i - 1) \div n) + 1])[((i - 1) % n) + 1] ]

\* _build_dhcp_reg(interface_guids): one section per GUID, in list order
BuildDhcpReg(guids) ==
    [ i \in 1..Len(guids) |->
        [ key    |-> <<"ControlSet001", "Services", "Tcpip", "Parameters",
                       "Interfaces", guids[i]>>,
          values |-> { RegValue("EnableDHCP", "dword", "00000001"),
                       RegValue("IPAddress", "hex(7)", "0.0.0.0"),
                       RegValue("SubnetMask", "hex(7)", "0.0.0.0"),
                       RegValue("DefaultGateway", "hex(7)", ""),
                       RegValue("NameServer", "sz", "") } ] ]

\* one line of a .reg text: the header, a blank line, a "[key]" line, or the
\* value lines of a section (none of them starts with "[")
RegLine(kind, key, values) == [kind |-> kind, key |-> key, values |-> values]

RECURSIVE RegLines(_)
\* "\n".join(lines): the header, a blank line, then per section its "[key]"
\* line, its value lines and a blank line
RegLines(patch) ==
    IF patch = << >>
    THEN << RegLine("header", << >>, {}), RegLine("blank", << >>, {}) >>
    ELSE LET s == Last(patch)
         IN  RegLines(SubSeq(patch, 1, Len(patch) - 1))
                \o << RegLine("key", s.key, {}) >>
                \o (IF s.values = {} THEN << >>
                    ELSE << RegLine("values", << >>, s.values) >>)
                \o << RegLine("blank", << >>, {}) >>

\* re.split(r'\n(?=\[)', reg_text), keeping the chunks that start with "[":
\* a unit runs from a "[key]" line to the line before the next one
SplitSections(lines) ==
    LET starts == SelectSeq([i \in 1..Len(lines) |-> i],
                            LAMBDA i : lines[i].kind = "key")
        stop(j) == IF j = Len(starts) THEN Len(lines) ELSE starts[j + 1] - 1
    IN  [ j \in 1..Len(starts) |->
            [ key    |-> lines[starts[j]].key,
              values |-> UNION { lines[i].values : i \in (starts[j] + 1)..stop(j) } ] ]

\* the orders list(set(...)) can give the GUIDs in
Orders(S) == {s \in [1..Cardinality(S) -> S] : Range(s) = S}

\* values of a key after a merge: a value of the same name is replaced
MergeValues(old, new) ==
    {v \in old : \A w \in new : w[1] # v[1]} \cup new

\* merging one section into a hive: the key named by the section is created
\* when the hive has none, and updated in place when it has one
ApplySection(hive, s) ==
    IF \E i \in 1..Len(hive) : hive[i].key = s.key
    THEN [ i \in 1..Len(hive) |->
             IF hive[i].key = s.key
             THEN [key |-> s.key, values |-> MergeValues(hive[i].values, s.values)]
             ELSE hive[i] ]
    ELSE Append(hive, s)

RECURSIVE ApplyAll(_, _)
\* merging a whole patch, section by section
ApplyAll(hive, patch) ==
    IF patch = << >> THEN hive
    ELSE ApplyAll(ApplySection(hive, Head(patch)), Tail(patch))

\* guestfish upload: a file at the same path is replaced
Upload(files, path, content) ==
    {f \in files : f.path # path} \cup {[path |-> path, content |-> content]}

\* a Windows guest image: the drivers in System32\drivers, the keys of the
\* SYSTEM hive under ControlSet001 touched here, C:\Drivers, the firstboot
\* scripts, and the interface GUIDs
GuestImage(sys, registered, guids) ==
    [ sys     |-> sys,
      hive    |-> [ i \in 1..Len(SelectSeq(SortedDrivers, LAMBDA d : d \in registered)) |->
                      [ key    |-> ServiceKey(SelectSeq(SortedDrivers,
                                                        LAMBDA d : d \in registered)[i]),
                        values |-> {RegValue("Start", "dword", "00000003")} ] ],
      drivers |-> {},
      scripts |-> {},
      guids   |-> guids ]

\* the locals of ensure_all_virtio_drivers and of the _merge_reg_file it calls
EngLocals(iso) ==
    [ pc |-> "idle", runs |-> 0, failures |-> 0, iso |-> iso,
      existing |-> {}, extracted |-> {}, x |-> 0, xlog |-> << >>,
      patch |-> << >>, after |-> "", hive_local |-> << >>, k |-> 0,
      mlog |-> << >>, warned |-> << >>, error |-> None ]

\* no ensure_all_virtio_drivers call has been made
EngineIdle ==
    /\ eng = EngLocals(DriverNames)
    /\ guest = GuestImage({}, {}, {})

\* some external tool may still fail in this run of the model
CanFail == eng.failures < MaxToolFailures

\* a check=True command failed: RuntimeError propagates to the caller
EngRaise(e, msg) == [e EXCEPT !.pc = "raised", !.failures = @ + 1, !.error = msg]

\* ensure_prerequisites, then step 1: _check_existing_drivers (a failing
\* is-file command counts the driver as absent)
EngBegin ==
    /\ eng.pc \in {"idle", "returned", "raised"}
    /\ eng.runs < MaxEngineRuns
    /\ \/ eng' = [eng EXCEPT !.pc = "extract", !.runs = @ + 1, !.error = None,
                             !.existing = guest.sys, !.extracted = {},
                             !.x = 0, !.xlog = << >>,
                             !.mlog = << >>, !.warned = << >>]
       \/ /\ CanFail
          /\ \E d \in guest.sys :
               eng' = [eng EXCEPT !.pc = "extract", !.runs = @ + 1, !.error = None,
                                  !.failures = @ + 1,
                                  !.existing = guest.sys \ {d}, !.extracted = {},
                                  !.x = 0, !.xlog = << >>,
                                  !.mlog = << >>, !.warned = << >>]
    /\ UNCHANGED <<guest, inj, mnt, pipeline, enc>>

\* for drv_name, drv_def in DRIVER_DEFS.items(): the insertion order
DriverOrder == <<"viostor", "vioscsi", "netkvm">>

\* one step of _extract_drivers_from_iso: mount, cp, skip or umount
Extraction(step, d) == [step |-> step, drv |-> d]

EngMount_goes_on ==
    /\ eng.pc = "extract"
    /\ \/ eng' = [eng EXCEPT !.pc = "copy", !.x = 1,
                             !.xlog = Append(@, Extraction("mount", ""))]
       \/ /\ CanFail
          /\ eng' = [eng EXCEPT !.pc = "upload_sys", !.failures = @ + 1,
                                !.xlog = Append(@, Extraction("mount_failed", ""))]
    /\ UNCHANGED <<guest, inj, mnt, pipeline, enc>>

\* step 2, _extract_drivers_from_iso: mount -o loop,ro of the ISO (check=True);
\* a failure is re-raised as RuntimeError before the try/finally is entered
EngMount ==
    /\ eng.pc = "extract"
    /\ \/ eng' = [eng EXCEPT !.pc = "copy", !.x = 1,
                             !.xlog = Append(@, Extraction("mount", ""))]
       \/ /\ CanFail
          /\ eng' = [EngRaise(eng, "Cannot mount virtio-win ISO") EXCEPT
                       !.xlog = Append(@, Extraction("mount_failed", ""))]
    /\ UNCHANGED <<guest, inj, mnt, pipeline, enc>>

EngCopy_aborts_on_missing ==
    /\ eng.pc = "copy"
    /\ LET d    == DriverOrder[eng.x]
           next == IF eng.x = Len(DriverOrder) THEN "umount" ELSE "copy"
       IN  IF d \notin eng.iso
           THEN eng' = [eng EXCEPT !.pc = "umount",
                                   !.xlog = Append(@, Extraction("skip", d))]
           ELSE \/ eng' = [eng EXCEPT !.pc = next, !.x = @ + 1,
                                      !.extracted = @ \cup {d},
                                      !.xlog = Append(@, Extraction("cp", d))]
                \/ /\ CanFail
                   /\ eng' = [eng EXCEPT !.pc = "umount", !.failures = @ + 1,
                                         !.error = "cp failed",
                                         !.xlog = Append(@, Extraction("cp_failed", d))]
    /\ UNCHANGED <<guest, inj, mnt, pipeline, enc>>

\* the loop body for one driver: a driver not found on the ISO is logged and
\* skipped; cp (check=True) of the .sys file and of the driver directory, a
\* failure leaving the loop through the finally clause
EngCopy ==
    /\ eng.pc = "copy"
    /\ LET d    == DriverOrder[eng.x]
           next == IF eng.x = Len(DriverOrder) THEN "umount" ELSE "copy"
       IN  IF d \notin eng.iso
           THEN eng' = [eng EXCEPT !.pc = next, !.x = @ + 1,
                                   !.xlog = Append(@, Extraction("skip", d))]
           ELSE \/ eng' = [eng EXCEPT !.pc = next, !.x = @ + 1,
                                      !.extracted = @ \cup {d},
                                      !.xlog = Append(@, Extraction("cp", d))]
                \/ /\ CanFail
                   /\ eng' = [eng EXCEPT !.pc = "umount", !.failures = @ + 1,
                                         !.error = "cp failed",
                                         !.xlog = Append(@, Extraction("cp_failed", d))]
    /\ UNCHANGED <<guest, inj, mnt, pipeline, enc>>

\* finally: umount of the mount directory (check=False, its outcome is
\* ignored); then the drivers are returned or the exception goes on
EngUmount ==
    /\ eng.pc = "umount"
    /\ eng' = [eng EXCEPT !.pc = IF eng.error # None THEN "raised" ELSE "upload_sys",
                          !.xlog = Append(@, Extraction("umount", ""))]
    /\ UNCHANGED <<guest, inj, mnt, pipeline, enc>>

\* step 3: upload the missing .sys files that were extracted; then
\* _build_driver_reg(existing) is written and _merge_reg_file entered
EngUploadSys ==
    /\ eng.pc = "upload_sys"
    /\ LET missing == DriverNames \ eng.existing
           wanted  == missing \cap eng.extracted
       IN  \/ /\ guest' = [guest EXCEPT !.sys = @ \cup wanted]
              /\ eng' = [eng EXCEPT !.pc = "virt-win-reg",
                                    !.existing = @ \cup wanted,
                                    !.patch = BuildDriverReg(eng.existing \cup wanted),
                                    !.after = "stage",
                                    !.mlog = << >>, !.warned = << >>]
           \/ /\ CanFail
              /\ \E done \in SUBSET wanted :
                    /\ done # wanted
                    /\ guest' = [guest EXCEPT !.sys = @ \cup done]
              /\ eng' = EngRaise(eng, "guestfish upload failed")
    /\ UNCHANGED <<inj, mnt, pipeline, enc>>

\* one tool invocation of _merge_reg_file
Tried(tool, unit, ok) == [tool |-> tool, unit |-> unit, ok |-> ok]

\* _merge_reg_file: virt-win-reg --merge (check=False); return when it succeeds
MergeVirtWinReg ==
    /\ eng.pc = "virt-win-reg"
    /\ \/ /\ guest' = [guest EXCEPT !.hive = ApplyAll(@, eng.patch)]
          /\ eng' = [eng EXCEPT !.pc = eng.after,
                                !.mlog = Append(@, Tried("virt-win-reg", 0, TRUE))]
       \/ /\ CanFail
          /\ guest' = guest
          /\ eng' = [eng EXCEPT !.pc = "download", !.failures = @ + 1,
                                !.mlog = Append(@, Tried("virt-win-reg", 0, FALSE))]
    /\ UNCHANGED <<inj, mnt, pipeline, enc>>

\* _merge_reg_file: unlink the local hive, guestfish download SYSTEM
MergeDownload ==
    /\ eng.pc = "download"
    /\ \/ eng' = [eng EXCEPT !.pc = "bulk", !.hive_local = guest.hive,
                             !.mlog = Append(@, Tried("download", 0, TRUE))]
       \/ /\ CanFail
          /\ eng' = [EngRaise(eng, "guestfish download failed") EXCEPT
                       !.hive_local = << >>,
                       !.mlog = Append(@, Tried("download", 0, FALSE))]
    /\ UNCHANGED <<guest, inj, mnt, pipeline, enc>>

\* _merge_reg_file: hivexregedit --merge of the whole patch (check=False)
MergeBulk ==
    /\ eng.pc = "bulk"
    /\ \/ eng' = [eng EXCEPT !.pc = "upload",
                             !.hive_local = ApplyAll(@, eng.patch),
                             !.mlog = Append(@, Tried("hivexregedit", 0, TRUE))]
       \/ /\ CanFail
          /\ eng' = [eng EXCEPT !.pc = IF SplitSections(RegLines(eng.patch)) = << >>
                                      THEN "upload" ELSE "parts",
                                !.k = 1, !.failures = @ + 1,
                                !.mlog = Append(@, Tried("hivexregedit", 0, FALSE))]
    /\ UNCHANGED <<guest, inj, mnt, pipeline, enc>>

MergePart_abort ==
    /\ eng.pc = "parts"
    /\ LET units == SplitSections(RegLines(eng.patch))
           last  == eng.k = Len(units)
       IN  \/ eng' = [eng EXCEPT !.pc = IF last THEN "upload" ELSE "parts",
                                 !.k = @ + 1,
                                 !.hive_local = ApplySection(@, units[eng.k]),
                                 !.mlog = Append(@, Tried("hivexregedit", eng.k, TRUE))]
           \/ /\ CanFail
              /\ eng' = [eng EXCEPT !.pc = "upload",
                                    !.k = @ + 1, !.failures = @ + 1,
                                    !.warned = Append(@, eng.k),
                                    !.mlog = Append(@, Tried("hivexregedit", eng.k, FALSE))]
    /\ UNCHANGED <<guest, inj, mnt, pipeline, enc>>

\* _merge_reg_file: hivexregedit --merge of section k alone (check=False); a
\* failure is logged and the loop goes on
MergePart ==
    /\ eng.pc = "parts"
    /\ LET units == SplitSections(RegLines(eng.patch))
           last  == eng.k = Len(units)
       IN  \/ eng' = [eng EXCEPT !.pc = IF last THEN "upload" ELSE "parts",
                                 !.k = @ + 1,
                                 !.hive_local = ApplySection(@, units[eng.k]),
                                 !.mlog = Append(@, Tried("hivexregedit", eng.k, TRUE))]
           \/ /\ CanFail
              /\ eng' = [eng EXCEPT !.pc = IF last THEN "upload" ELSE "parts",
                                    !.k = @ + 1, !.failures = @ + 1,
                                    !.warned = Append(@, eng.k),
                                    !.mlog = Append(@, Tried("hivexregedit", eng.k, FALSE))]
    /\ UNCHANGED <<guest, inj, mnt, pipeline, enc>>

\* _merge_reg_file: guestfish upload of the edited hive
MergeUpload ==
    /\ eng.pc = "upload"
    /\ \/ /\ guest' = [guest EXCEPT !.hive = eng.hive_local]
          /\ eng' = [eng EXCEPT !.pc = eng.after,
                                !.mlog = Append(@, Tried("upload", 0, TRUE))]
       \/ /\ CanFail
          /\ guest' = guest
          /\ eng' = [EngRaise(eng, "guestfish upload failed") EXCEPT
                       !.mlog = Append(@, Tried("upload", 0, FALSE))]
    /\ UNCHANGED <<inj, mnt, pipeline, enc>>

\* step 5: _stage_driver_dirs copies every extracted package to C:\Drivers
EngStageDirs ==
    /\ eng.pc = "stage"
    /\ \/ /\ guest' = [guest EXCEPT !.drivers = @ \cup eng.extracted]
          /\ eng' = [eng EXCEPT !.pc = "firstboot"]
       \/ /\ CanFail
          /\ eng.extracted # {}
          /\ \E done \in SUBSET eng.extracted :
                guest' = [guest EXCEPT !.drivers = @ \cup done]
          /\ eng' = EngRaise(eng, "guestfish failed")
    /\ UNCHANGED <<inj, mnt, pipeline, enc>>

EngFirstboot_numbered ==
    /\ eng.pc = "firstboot"
    /\ \/ /\ guest' = [guest EXCEPT
                         !.scripts = Upload(@, Append(FirstbootPath, eng.runs),
                                            "PNPUTIL_FIRSTBOOT_SCRIPT")]
          /\ eng' = [eng EXCEPT !.pc = "guids"]
       \/ /\ CanFail
          /\ guest' = guest
          /\ eng' = EngRaise(eng, "guestfish upload failed")
    /\ UNCHANGED <<inj, mnt, pipeline, enc>>

\* step 6: _inject_pnputil_firstboot uploads the script to its fixed path
EngFirstboot ==
    /\ eng.pc = "firstboot"
    /\ \/ /\ guest' = [guest EXCEPT
                         !.scripts = Upload(@, FirstbootPath, "PNPUTIL_FIRSTBOOT_SCRIPT")]
          /\ eng' = [eng EXCEPT !.pc = "guids"]
       \/ /\ CanFail
          /\ guest' = guest
          /\ eng' = EngRaise(eng, "guestfish upload failed")
    /\ UNCHANGED <<inj, mnt, pipeline, enc>>

\* what _get_interface_guids can return on this guest, with the number of
\* tools that failed: virt-win-reg lists the GUIDs; or it fails and the
\* hivexsh fallback lists them; or the fallback fails too and the result is []
Discoveries ==
    { [found |-> guest.guids, failed |-> 0] }
       \cup (IF CanFail
             THEN { [found |-> guest.guids, failed |-> 1], [found |-> {}, failed |-> 1] }
             ELSE {})

EngGuids_always ==
    /\ eng.pc = "guids"
    /\ \E d \in Discoveries : \E guids \in Orders(d.found) :
          eng' = [eng EXCEPT !.pc = "virt-win-reg",
                             !.failures = @ + d.failed,
                             !.patch = BuildDhcpReg(guids),
                             !.after = "return",
                             !.mlog = << >>, !.warned = << >>]
    /\ UNCHANGED <<guest, inj, mnt, pipeline, enc>>

\* step 7: _get_interface_guids; with GUIDs _build_dhcp_reg is written and
\* _merge_reg_file entered, without any the engine returns
EngGuids ==
    /\ eng.pc = "guids"
    /\ \E d \in Discoveries : \E guids \in Orders(d.found) :
          eng' = IF guids # << >>
                 THEN [eng EXCEPT !.pc = "virt-win-reg",
                                  !.failures = @ + d.failed,
                                  !.patch = BuildDhcpReg(guids),
                                  !.after = "return",
                                  !.mlog = << >>, !.warned = << >>]
                 ELSE [eng EXCEPT !.pc = "return", !.failures = @ + d.failed]
    /\ UNCHANGED <<guest, inj, mnt, pipeline, enc>>

\* return True
EngReturn ==
    /\ eng.pc = "return"
    /\ eng' = [eng EXCEPT !.pc = "returned"]
    /\ UNCHANGED <<guest, inj, mnt, pipeline, enc>>

----------------------------------------------------------------------------
(* converter/windows_virtio.py: _str_to_reg_expand_sz.  A text is a sequence
   of Unicode scalar values; the result is the tag and the comma-separated
   items that follow it. *)

MaxTextLen == 3

\* NUL, "A", "\", e-acute, the euro sign, and one character outside the BMP
CodePoints == {0, 65, 92, 233, 8364, 128512}

Texts == UNION { [1..n -> CodePoints] : n \in 0..MaxTextLen }

\* the UTF-16 code units of one scalar value (a surrogate pair above U+FFFF)
Utf16Units(cp) ==
    IF cp < 65536
    THEN << cp >>
    ELSE << 55296 + ((cp - 65536) \div 1024), 56320 + ((cp - 65536) % 1024) >>

\* one code unit, low byte first
LittleEndian(u) == << u % 256, u \div 256 >>

RECURSIVE EncodeUtf16Le(_)
\* s.encode("utf-16-le")
EncodeUtf16Le(s) ==
    IF s = << >> THEN << >>
    ELSE LET units == Utf16Units(Head(s))
         IN  LittleEndian(units[1])
                \o (IF Len(units) = 2 THEN LittleEndian(units[2]) ELSE << >>)
                \o EncodeUtf16Le(Tail(s))

HexDigits ==
    << "0", "1", "2", "3", "4", "5", "6", "7", "8", "9", "a", "b", "c", "d", "e", "f" >>

\* f"{b:02x}"
Hex2(b) == << HexDigits[(b \div 16) + 1], HexDigits[(b % 16) + 1] >>

\* no call of _str_to_reg_expand_sz has been made
NoEncoding == [called |-> FALSE, s |-> << >>, out |-> [tag |-> "", items |-> << >>]]

StrToRegExpandSz_unterminated(s) ==
    LET raw == EncodeUtf16Le(s)
    IN  [tag |-> "hex(2):", items |-> [i \in 1..Len(raw) |-> Hex2(raw[i])]]

\* raw = s.encode("utf-16-le") + b"\x00\x00"; "hex(2):" + ",".join(...)
StrToRegExpandSz(s) ==
    LET raw == EncodeUtf16Le(s) \o << 0, 0 >>
    IN  [tag |-> "hex(2):", items |-> [i \in 1..Len(raw) |-> Hex2(raw[i])]]

\* a caller evaluates _str_to_reg_expand_sz(s)
ExpandSz(s) ==
    /\ enc' = [called |-> TRUE, s |-> s, out |-> StrToRegExpandSz(s)]
    /\ UNCHANGED <<pipeline, inj, mnt, eng, guest>>

----------------------------------------------------------------------------
Init ==
    /\ PipelineInit
    /\ InjectIdle
    /\ EngineIdle
    /\ enc = NoEncoding

Next ==
    \/ \E sv \in BOOLEAN, m \in MigrationIds : Run(sv, m)
    \/ BeginStage
    \/ CompleteStage
    \/ FailStage
    \/ ReturnSuccess
    \/ \E m \in MigrationIds : Resume(m)
    \/ Stop
    \/ \E sv \in BOOLEAN : DryRun(sv)
    \/ StageValidate
    \/ StageSnapshot
    \/ StageExport
    \/ StageConvert
    \/ StageCleanTools
    \/ StageInjectVirtio
    \/ StageFixBootloader
    \/ StageEnsureUefi
    \/ StageFixNetwork
    \/ StageUploadS3
    \/ StageImportScw
    \/ StageVerify
    \/ StageCleanup

Spec == Init /\ [][Next]_vars

----------------------------------------------------------------------------
(* Two concurrent _stage_inject_virtio calls *)

\* the pipeline variables at rest during the detailed runs
PipelineAtRest ==
    /\ PipelineInit
    /\ env = InitEnv(1, "windows")

InjectInit ==
    /\ PipelineAtRest
    /\ inj \in [MigrationIds -> {InjLocals(iso) : iso \in VirtioIsos}]
    /\ mnt = << >>
    /\ EngineIdle
    /\ enc = NoEncoding

InjectNext == \E p \in MigrationIds : InjStep(p)

InjectSpec == InjectInit /\ [][InjectNext]_vars

\* each migration is a process of its own, which the host keeps scheduling
InjectFairSpec ==
    InjectSpec /\ \A p \in MigrationIds : WF_vars(InjStep(p))

----------------------------------------------------------------------------
(* ensure_all_virtio_drivers called on one guest image, up to MaxEngineRuns times *)

EngineInit ==
    /\ PipelineAtRest
    /\ InjectIdle
    /\ eng \in {EngLocals(iso) : iso \in IsoContents}
    /\ guest \in {GuestImage(sys, registered, guids) :
                     sys \in SUBSET DriverNames,
                     registered \in {{}, {"viostor"}},
                     guids \in GuidSets}
    /\ enc = NoEncoding

EngineNext ==
    \/ EngBegin
    \/ EngMount
    \/ EngCopy
    \/ EngUmount
    \/ EngUploadSys
    \/ MergeVirtWinReg
    \/ MergeDownload
    \/ MergeBulk
    \/ MergePart
    \/ MergeUpload
    \/ EngStageDirs
    \/ EngFirstboot
    \/ EngGuids
    \/ EngReturn

EngineSpec == EngineInit /\ [][EngineNext]_vars

----------------------------------------------------------------------------
(* The stage loop of run over a stage list that may name a stage without
   handler: the list is drawn from a few handled names and one unhandled
   name. *)

MaxStageList == 2

StageNames == {"validate", "fix_network", "verify", NoSuchStage}

StageLists ==
    UNION { [1..n -> StageNames] : n \in 1..MaxStageList }

ExecuteInit ==
    /\ InjectIdle
    /\ EngineIdle
    /\ enc = NoEncoding
    /\ \E m \in MigrationIds :
          /\ mid = m
          /\ state = NewState(m)
          /\ store = Save(<< >>, NewState(m))
    /\ pc = "loop"
    /\ op = "run"
    /\ skip = FALSE
    /\ todo \in StageLists
    /\ exc = None
    /\ result = NoResult
    /\ invoked = << >>
    /\ prior = NoPrior
    /\ env \in {InitEnv(n, os) : n \in 0..1, os \in OsFamilies}
    /\ resumes = 0
    /\ calls = << >>
    /\ rendered = NoRendering

ExecuteNext ==
    \/ BeginStage
    \/ ExecuteUnhandled
    \/ StageValidate
    \/ StageFixNetwork
    \/ StageVerify
    \/ CompleteStage
    \/ FailStage
    \/ ReturnSuccess

ExecuteSpec == ExecuteInit /\ [][ExecuteNext]_vars

----------------------------------------------------------------------------
(* _str_to_reg_expand_sz applied to every text of the bounded alphabet *)

CodecInit ==
    /\ PipelineAtRest
    /\ InjectIdle
    /\ EngineIdle
    /\ enc = NoEncoding

CodecNext == \E s \in Texts : ExpandSz(s)

CodecSpec == CodecInit /\ [][CodecNext]_vars

----------------------------------------------------------------------------
(* _stage_cleanup applied to every artifact bag of a bounded set: the stage
   loop has saved the state and is about to call the handler *)

\* f"migrations/{migration_id}/{name}" for the n qcow2 files of a migration
TransitKeys(m, n) == Map(Map(Paths(n), QcowOf), LAMBDA q : KeyOf(m, q))

\* the artifact bags given to the handler: each key present or absent
ArtifactBags(m) ==
    { [ k \in ks |->
          CASE k = "snapshot_name"     -> m
            [] k = "s3_bucket"         -> "transit"
            [] k = "scaleway_image_id" -> 1
            [] OTHER                   -> TransitKeys(m, n) ] :
        ks \in SUBSET {"snapshot_name", "s3_keys", "s3_bucket", "scaleway_image_id"},
        n \in 0..MaxDisks }

CleanupInit ==
    /\ InjectIdle
    /\ EngineIdle
    /\ enc = NoEncoding
    /\ \E m \in MigrationIds : \E a \in ArtifactBags(m) :
          /\ mid = m
          /\ state = [NewState(m) EXCEPT !.current_stage = "cleanup", !.artifacts = a]
          /\ store = Save(<< >>, state)
          /\ \E objects \in SUBSET Range(TransitKeys(m, MaxDisks)) :
                env = [InitEnv(MaxDisks, "linux") EXCEPT
                         !.remote = objects,
                         !.vm_snapshot = "snapshot_name" \in DOMAIN a]
    /\ pc = "exec"
    /\ op = "run"
    /\ skip = FALSE
    /\ todo = << >>
    /\ exc = None
    /\ result = NoResult
    /\ invoked = << >>
    /\ prior = NoPrior
    /\ resumes = 0
    /\ calls = << >>
    /\ rendered = NoRendering

CleanupNext ==
    \/ StageCleanup
    \/ CompleteStage
    \/ ReturnSuccess

CleanupSpec == CleanupInit /\ [][CleanupNext]_vars

----------------------------------------------------------------------------
(* Properties *)

\* the registry from stage k to its end
StagesFrom(k) == SubSeq(STAGES, Index(k), Len(STAGES))

\* s lists stages in the registry's relative order
FollowsRegistryOrder(s) ==
    \A i, j \in 1..Len(s) : i < j => Index(s[i]) < Index(s[j])

\* every stage of the registry is in s
ContainsAllStages(s) == \A i \in 1..Len(STAGES) : InSeq(STAGES[i], s)

\* C1: after run or resume failed at stage k, a following resume invokes
\* exactly the handlers of the stages from k onward, in registry order, and
\* none of a stage in the persisted completed_stages.
C1_ResumeRunsFromFailedStage ==
    (op = "resume" /\ prior.found /\ prior.failed # None) =>
        /\ IsPrefix(invoked, StagesFrom(prior.failed))
        /\ (pc = "idle" /\ result.kind = "success"
               => invoked = StagesFrom(prior.failed))
        /\ \A i \in 1..Len(invoked) :
               ~InSeq(invoked[i], prior.record.completed_stages)

\* C2: every persisted completed_stages is a subsequence of the registry
\* order: no stage appears after a stage that follows it in the registry.
C2_CompletedFollowsRegistryOrder ==
    \A m \in DOMAIN store : FollowsRegistryOrder(store[m].completed_stages)

C4_FailureHaltsAndReports ==
    [][ pc = "fail" =>
          \/ result'.kind = "stopped"
          \/ /\ pc' = "idle"
             /\ invoked' = invoked
             /\ store'[mid].error = exc
             /\ exc # None
             /\ result'.kind = "failure"
             /\ ~result'.success
             /\ result'.failed_stage = Last(invoked)
             /\ result'.failed_stage = state.current_stage
             /\ result'.completed_stages = state.completed_stages ]_vars

C4_Witness ==
    /\ op = "resume"
    /\ pc = "idle"
    /\ result.kind = "failure"
    /\ Len(result.completed_stages) > 2
    /\ store[mid].error = result.error

\* C5: resume on a migration whose persisted completed_stages contains every
\* stage returns success at once: no handler invoked, persisted state untouched.
C5_ResumeOfCompleteMigration ==
    (op = "resume" /\ prior.found
        /\ ContainsAllStages(prior.record.completed_stages)) =>
        /\ pc = "idle"
        /\ result.kind = "success"
        /\ invoked = << >>
        /\ store[mid] = prior.record

C5_Witness ==
    /\ op = "resume"
    /\ prior.found
    /\ ContainsAllStages(prior.record.completed_stages)
    /\ result.kind = "success"

\* C6: write-through: when a handler is invoked the persisted record equals
\* the in-memory state with current_stage set to that stage; while the
\* handler runs and until its outcome is saved the record is that pre-stage
\* state; before the next handler is invoked the record is the post-stage
\* state, its completed_stages ending with the stage that just succeeded.
C6_WriteThrough ==
    /\ pc = "exec" =>
          /\ store[mid] = state
          /\ store[mid].current_stage # ""
          /\ invoked # << >> => Last(store[mid].completed_stages) = Last(invoked)
    /\ pc \in {"ok", "fail"} =>
          /\ store[mid] = [state EXCEPT !.artifacts = store[mid].artifacts]
          /\ store[mid].current_stage = Last(invoked)
    /\ (pc = "loop" /\ invoked # << >>) =>
          /\ store[mid] = state
          /\ Last(store[mid].completed_stages) = Last(invoked)

C6_Witness ==
    /\ op = "resume"
    /\ pc = "exec"
    /\ Len(invoked) > 1
    /\ Last(store[mid].completed_stages) = Last(invoked)

\* C7: every success result carries the identifiers of the artifact bag:
\* image_id = artifacts['scaleway_image_id'] and
\* instance_id = artifacts['scaleway_instance_id'].
C7_SuccessCarriesIdentifiers ==
    result.kind = "success" =>
        /\ result.image_id =
              Get(store[result.migration_id].artifacts, "scaleway_image_id", NoId)
        /\ result.instance_id =
              Get(store[result.migration_id].artifacts, "scaleway_instance_id", NoId)

\* C8: a failure result agrees with the persisted record: failed_stage is
\* the persisted current_stage (a failure does not clear it) and is not in
\* completed_stages; error and completed_stages equal the persisted ones.
C8_FailureAgreesWithRecord ==
    result.kind = "failure" =>
        LET rec == store[result.migration_id]
        IN  /\ result.failed_stage = rec.current_stage
            /\ rec.current_stage # ""
            /\ ~InSeq(result.failed_stage, rec.completed_stages)
            /\ result.error = rec.error
            /\ result.completed_stages = rec.completed_stages

C8_Witness ==
    /\ op = "resume"
    /\ result.kind = "failure"
    /\ result.failed_stage = "import_scw"
    /\ store[mid].current_stage = "import_scw"

\* C9: completed_stages is append-only (each persisted value extends the
\* previous one) and never holds the same stage twice.
C9_AppendOnlyNoDuplicates ==
    [][ \A m \in DOMAIN store' :
          /\ NoDup(store'[m].completed_stages)
          /\ m \in DOMAIN store =>
                IsPrefix(store[m].completed_stages, store'[m].completed_stages) ]_vars

C9_Witness ==
    /\ op = "resume"
    /\ prior.found
    /\ prior.record.completed_stages # << >>
    /\ Len(store[mid].completed_stages) > Len(prior.record.completed_stages) + 1

\* C10: a handler invoked again does not create an output that already
\* exists: import_scw invoked with its cloud snapshot already created and
\* recorded in artifacts creates no second cloud snapshot.
C10_ImportCreatesNoSecondSnapshot ==
    [][ ( /\ pc = "exec"
          /\ state.current_stage = "import_scw"
          /\ "scaleway_snapshot_id" \in DOMAIN state.artifacts )
        => env'.cloud_snapshots = env.cloud_snapshots ]_vars

\* the stages whose handler returns at once when there is no disk image
DiskStages == {"clean_tools", "inject_virtio", "fix_bootloader", "ensure_uefi"}

\* C15: the clean_tools, inject_virtio, fix_bootloader and ensure_uefi
\* handlers, invoked with qcow2_paths absent or empty, call no external tool,
\* return normally and leave the artifacts (and the environment) unchanged.
C15_NoImageNoWork ==
    [][ ( /\ pc = "exec"
          /\ state.current_stage \in DiskStages
          /\ Get(state.artifacts, "qcow2_paths", << >>) = << >>
          /\ invoked' = Append(invoked, state.current_stage) )
        => /\ calls' = << >>
           /\ pc' = "ok"
           /\ exc' = None
           /\ state'.artifacts = state.artifacts
           /\ env' = env ]_vars

C15_Witness ==
    /\ pc = "ok"
    /\ state.current_stage = "ensure_uefi"
    /\ Last(invoked) = "ensure_uefi"
    /\ InSeq("clean_tools", invoked)
    /\ "qcow2_paths" \in DOMAIN state.artifacts
    /\ state.artifacts["qcow2_paths"] = << >>
    /\ calls = << >>

\* C16: import_scw, invoked with s3_bucket absent or s3_keys absent or empty,
\* raises: it creates no cloud snapshot and no cloud image, calls no API and
\* writes no artifact; the orchestrator then reports a failure at import_scw.
C16_ImportWithoutKeysFails ==
    [][ /\ ( /\ pc = "exec"
             /\ state.current_stage = "import_scw"
             /\ \/ "s3_bucket" \notin DOMAIN state.artifacts
                \/ Get(state.artifacts, "s3_keys", << >>) = << >>
             /\ invoked' = Append(invoked, "import_scw") )
           => /\ pc' = "fail"
              /\ exc' # None
              /\ calls' = << >>
              /\ env'.cloud_snapshots = env.cloud_snapshots
              /\ env'.cloud_images = env.cloud_images
              /\ state'.artifacts = state.artifacts
        /\ ( /\ pc = "fail"
             /\ state.current_stage = "import_scw"
             /\ result'.kind # "stopped" )
           => /\ pc' = "idle"
              /\ result'.kind = "failure"
              /\ result'.failed_stage = "import_scw"
              /\ result'.error = exc
              /\ result'.image_id = NoId ]_vars

C16_Witness ==
    /\ pc = "idle"
    /\ result.kind = "failure"
    /\ result.failed_stage = "import_scw"
    /\ result.error = "No S3 keys found"
    /\ store[mid].artifacts["s3_keys"] = << >>
    /\ env.cloud_snapshots = 0
    /\ env.cloud_images = 0

\* the images of s whose remote object is missing or differs in size
ToUpload(m, s, remote) == SelectSeq(s, LAMBDA p : KeyOf(m, p) \notin remote)

\* C17: an invocation of upload_s3 uploads only images whose remote object is
\* missing or differs in size, in qcow2_paths order; when it returns it has
\* uploaded exactly those, skipped every image whose object matches, and
\* recorded s3_keys with one key per image, in qcow2_paths order.
C17_UploadOnlyMissing ==
    [][ ( /\ pc = "exec"
          /\ state.current_stage = "upload_s3"
          /\ invoked' = Append(invoked, "upload_s3") )
        => LET m      == state.migration_id
               paths  == Get(state.artifacts, "qcow2_paths", << >>)
               needed == ToUpload(m, paths, env.remote)
           IN  /\ Head(calls') = "create_bucket_if_not_exists"
               /\ IsPrefix(Tail(calls'), UploadCalls(m, needed))
               /\ pc' = "ok" =>
                     /\ Tail(calls') = UploadCalls(m, needed)
                     /\ Len(state'.artifacts["s3_keys"]) = Len(paths)
                     /\ \A i \in 1..Len(paths) :
                           /\ state'.artifacts["s3_keys"][i] = KeyOf(m, paths[i])
                           /\ state'.artifacts["s3_keys"][i] \in env'.remote ]_vars

\* a resumed upload that skipped the first image and uploaded the second
C17_Witness ==
    /\ op = "resume"
    /\ pc = "ok"
    /\ state.current_stage = "upload_s3"
    /\ Len(state.artifacts["qcow2_paths"]) = 2
    /\ Len(state.artifacts["s3_keys"]) = 2
    /\ calls = <<"create_bucket_if_not_exists">>
                 \o UploadCalls(mid, <<state.artifacts["qcow2_paths"][2]>>)

\* the disks of s whose target does not exist or fails the integrity check
ToConvert(s, valid) == SelectSeq(s, LAMBDA p : QcowOf(p) \notin valid)

\* the converter invocations among the calls c of the convert handler
Conversions(c) == SelectSeq(c, LAMBDA x : x[1] = "convert")

\* C18: an invocation of convert calls the converter only for disks whose
\* target does not exist or fails the check, in vmdk_paths order; when it
\* returns it has converted exactly those, skipped every disk with a valid
\* target, and recorded qcow2_paths with one path per vmdk_paths entry, in
\* the same order.
C18_ConvertOnlyMissing ==
    [][ ( /\ pc = "exec"
          /\ state.current_stage = "convert"
          /\ invoked' = Append(invoked, "convert") )
        => LET paths  == Get(state.artifacts, "vmdk_paths", << >>)
               needed == ToConvert(paths, env.qcow2)
           IN  /\ IsPrefix(Conversions(calls'), ConvertCalls(needed))
               /\ pc' = "ok" =>
                     /\ Conversions(calls') = ConvertCalls(needed)
                     /\ Len(state'.artifacts["qcow2_paths"]) = Len(paths)
                     /\ \A i \in 1..Len(paths) :
                           /\ state'.artifacts["qcow2_paths"][i] = QcowOf(paths[i])
                           /\ state'.artifacts["qcow2_paths"][i] \in env'.qcow2 ]_vars

\* a resumed convert that skipped the first disk and converted the second
C18_Witness ==
    /\ op = "resume"
    /\ pc = "ok"
    /\ state.current_stage = "convert"
    /\ Len(state.artifacts["vmdk_paths"]) = 2
    /\ Len(state.artifacts["qcow2_paths"]) = 2
    /\ Conversions(calls) = ConvertCalls(<<state.artifacts["vmdk_paths"][2]>>)

\* C19: run with skip_validation set never invokes the validate handler and
\* invokes the handlers of the other twelve stages in registry order; without
\* it, run invokes the handlers of all thirteen stages in registry order
\* (as far as no handler raises; all of them when run returns success).
C19_SkipValidationSkipsOnlyValidate ==
    op = "run" =>
        LET expected == IF skip THEN Tail(STAGES) ELSE STAGES
        IN  /\ Head(STAGES) = "validate"
            /\ Len(STAGES) = 13
            /\ skip => ~InSeq("validate", invoked)
            /\ IsPrefix(invoked, expected)
            /\ FollowsRegistryOrder(invoked)
            /\ (pc = "idle" /\ result.kind = "success") =>
                  /\ invoked = expected
                  /\ Len(invoked) = IF skip THEN 12 ELSE 13
                  /\ \A i \in 2..Len(STAGES) : InSeq(STAGES[i], invoked)
                  /\ ~skip => InSeq("validate", invoked)

C19_Witness ==
    /\ op = "run"
    /\ skip
    /\ pc = "idle"
    /\ result.kind = "success"
    /\ Len(invoked) = 12
    /\ Head(invoked) = "snapshot"
    /\ Last(invoked) = "cleanup"

\* the rendering r lists all thirteen stages in registry order and marks
\* validate, and only validate, as skipped exactly when skip_validation is set
RendersRegistry(r) ==
    /\ Len(r.lines) = 13
    /\ Len(r.lines) = Len(STAGES)
    /\ \A i \in 1..Len(r.lines) :
          /\ r.lines[i].n = i
          /\ r.lines[i].stage = STAGES[i]
          /\ r.lines[i].skipped <=> (r.skip_validation /\ r.lines[i].stage = "validate")

\* C20: dry_run invokes no handler, allocates no migration_id and neither
\* saves nor changes persisted state (nor anything else the pipeline acts
\* on); it renders all thirteen stages in registry order and marks validate,
\* and only validate, as skipped exactly when skip_validation is set.
C20_DryRunOnlyRenders ==
    /\ [](rendered.lines # << >> => RendersRegistry(rendered))
    /\ [][ (rendered'.lines # << >> /\ rendered' # rendered)
           => /\ RendersRegistry(rendered')
              /\ invoked' = invoked
              /\ calls' = calls
              /\ mid' = mid
              /\ store' = store
              /\ state' = state
              /\ env' = env
              /\ pc' = pc
              /\ result' = result ]_vars

\* a dry run with skip_validation, made while a failed migration is persisted
C20_Witness ==
    /\ rendered.lines # << >>
    /\ rendered.skip_validation
    /\ rendered.lines[1].skipped
    /\ ~rendered.lines[2].skipped
    /\ DOMAIN store # {}
    /\ result.kind = "failure"

\* C11: two concurrent migrations never have different driver images mounted
\* at the same mount path at the same time, and no migration has the driver
\* image it mounted unmounted or replaced by another migration while its
\* virt-v2v is using it.
C11_DriverImageMountSerialized ==
    /\ \A a, b \in 1..Len(mnt) :
          mnt[a].dir = mnt[b].dir => mnt[a].image = mnt[b].image
    /\ \A p \in MigrationIds :
          (inj[p].pc = "v2v_running" /\ inj[p].image # None)
             => /\ mnt # << >>
                /\ Last(mnt) = Mount(p, inj[p].image)

\* the migrations that have started _stage_inject_virtio
InjStarted == {p \in MigrationIds : inj[p].pc # "idle"}

\* C12: every external tool invoked by a stage is bounded by a timeout, so a
\* stage handler that has started eventually returns or raises, even when a
\* tool never returns.
C12_StageEventuallyReturns ==
    \A p \in MigrationIds :
        (p \in InjStarted) ~> (inj[p].pc \in {"returned", "raised"})

\* the entries of the guest hive registering the service of driver d
ServiceEntries(d) == {i \in 1..Len(guest.hive) : guest.hive[i].key = ServiceKey(d)}

\* the firstboot scripts of the guest that hold the pnputil script
PnputilScripts == {f \in guest.scripts : f.content = "PNPUTIL_FIRSTBOOT_SCRIPT"}

\* C13: after ensure_all_virtio_drivers has returned twice in a row on the
\* same image, with the same ISO and every tool succeeding, the guest hive
\* holds exactly one service entry per registered driver and the guest holds
\* exactly one firstboot script, at the fixed path.
C13_TwiceLeavesOneOfEach ==
    (eng.pc = "returned" /\ eng.runs >= 2 /\ eng.failures = 0) =>
        /\ \A d \in eng.existing : Cardinality(ServiceEntries(d)) = 1
        /\ \A d \in DriverNames : Cardinality(ServiceEntries(d)) <= 1
        /\ Cardinality(PnputilScripts) = 1
        /\ \A f \in PnputilScripts : f.path = FirstbootPath
        /\ Last(FirstbootPath) = "0000-install-virtio-drivers.bat"

C13_Witness ==
    /\ eng.pc = "returned"
    /\ eng.runs = 2
    /\ eng.failures = 0
    /\ eng.existing = DriverNames
    /\ Len(guest.hive) > Cardinality(DriverNames)
    /\ guest.guids # {}
    /\ Cardinality(guest.scripts) = 1

\* the positions the engine is at while inside _merge_reg_file
InMerge == {"virt-win-reg", "download", "bulk", "parts", "upload"}

\* log is a (possibly unfinished) run of the strategies over a patch of n
\* sections: virt-win-reg; after its failure the download and the bulk merge;
\* after the failure of the bulk merge one merge per section, 1 to n, whatever
\* the outcome of the ones before; then the upload
StrategyOrder(log, n) ==
    LET L == Len(log)
    IN  /\ L >= 1 => log[1].tool = "virt-win-reg"
        /\ L >= 2 => ~log[1].ok /\ log[2].tool = "download"
        /\ L >= 3 => /\ log[2].ok
                     /\ log[3].tool = "hivexregedit"
                     /\ log[3].unit = 0
        /\ L >= 4 =>
              IF log[3].ok
              THEN L = 4 /\ log[4].tool = "upload"
              ELSE /\ L <= n + 4
                   /\ \A j \in 4..L :
                         IF j <= n + 3
                         THEN log[j].tool = "hivexregedit" /\ log[j].unit = j - 3
                         ELSE log[j].tool = "upload"

\* the units of log that failed, in order
FailedUnits(log) ==
    LET bad == SelectSeq(log, LAMBDA t : t.unit > 0 /\ ~t.ok)
    IN  [i \in 1..Len(bad) |-> bad[i].unit]

\* C14: _merge_reg_file applies its strategies in a fixed order and stops at
\* the first that succeeds: virt-win-reg first; only if it fails, the bulk
\* hivexregedit merge on the downloaded hive; only if that fails, one merge
\* per section of the patch, in patch order, a failing section being logged
\* and the remaining ones still attempted; the edited hive is then uploaded.
C14_MergeStrategyOrder ==
    /\ StrategyOrder(eng.mlog, Len(eng.patch))
    /\ eng.warned = FailedUnits(eng.mlog)
    /\ (eng.mlog # << >> /\ eng.pc \notin InMerge \cup {"raised"}) =>
          /\ Last(eng.mlog).ok
          /\ Last(eng.mlog).tool \in {"virt-win-reg", "upload"}
          /\ Last(eng.mlog).tool = "virt-win-reg" => Len(eng.mlog) = 1
          /\ Last(eng.mlog).tool = "upload" => guest.hive = eng.hive_local

\* a finished merge in which a section failed, the next one was merged, and
\* the hive was uploaded
C14_Witness ==
    /\ eng.pc \in {"stage", "return"}
    /\ Len(eng.mlog) > 5
    /\ Last(eng.mlog) = Tried("upload", 0, TRUE)
    /\ \E j \in 4..(Len(eng.mlog) - 2) :
          /\ ~eng.mlog[j].ok
          /\ eng.mlog[j + 1].ok
    /\ eng.warned # << >>
    /\ guest.hive # << >>

\* C21: no stage other than validate is ever skipped: whenever run or resume
\* returns success, every stage of the registry except possibly validate is
\* in completed_stages (returned and persisted), and validate is absent only
\* if the migration was started with skip_validation.
C21_OnlyValidateSkipped ==
    (pc = "idle" /\ result.kind = "success") =>
        /\ result.completed_stages = store[mid].completed_stages
        /\ \A i \in 1..Len(STAGES) :
              STAGES[i] # "validate" => InSeq(STAGES[i], result.completed_stages)
        /\ ~InSeq("validate", result.completed_stages) => skip

\* a run with skip_validation that returned success without validate
C21_Witness ==
    /\ op = "run"
    /\ pc = "idle"
    /\ result.kind = "success"
    /\ skip
    /\ ~InSeq("validate", store[mid].completed_stages)
    /\ Len(store[mid].completed_stages) = Len(STAGES) - 1

\* C22: resume(migration_id) for an id with no persisted state fails with a
\* not-found error reported to the caller, invokes no stage handler, and
\* creates or modifies no persisted state.
C22_ResumeUnknownIdFails ==
    /\ [](result.kind = "not_found" =>
            /\ pc = "idle"
            /\ invoked = << >>
            /\ result.migration_id = mid
            /\ mid \notin DOMAIN store)
    /\ [][(op' = "resume" /\ resumes' = resumes + 1 /\ mid' \notin DOMAIN store) =>
            /\ result'.kind = "not_found"
            /\ pc' = "idle"
            /\ invoked' = << >>
            /\ store' = store
            /\ state' = state
            /\ env' = env
            /\ calls' = calls]_vars

\* a resume of an unknown id while another migration has a persisted record
C22_Witness ==
    /\ op = "resume"
    /\ result.kind = "not_found"
    /\ ~prior.found
    /\ DOMAIN store # {}
    /\ mid \notin DOMAIN store

\* C30: the stale failure message is cleared when a resume starts: whenever
\* run or resume returns success the persisted error is empty, and during a
\* resume the persisted error is already empty when the first remaining
\* stage's handler is invoked.
C30_ErrorClearedOnResume ==
    /\ (pc = "idle" /\ result.kind = "success") => store[mid].error = None
    /\ (op = "resume" /\ pc = "exec") => store[mid].error = None

\* a resume of a failed migration (persisted error set) about to invoke the
\* handler of its first remaining stage
C30_Witness ==
    /\ op = "resume"
    /\ pc = "exec"
    /\ invoked = << >>
    /\ prior.found
    /\ prior.record.error # None
    /\ store[mid].error = None

ArtifactKeys(stage) ==
    CASE stage = "validate"   -> {"vm_info"}
      [] stage = "snapshot"   -> {"snapshot_name"}
      [] stage = "export"     -> {"vmdk_paths"}
      [] stage = "convert"    -> {"qcow2_paths"}
      [] stage = "upload_s3"  -> {"s3_keys", "s3_bucket"}
      [] stage = "import_scw" -> {"scaleway_snapshot_id", "scaleway_image_id"}
      [] OTHER                -> {}

\* the list of stages the call in progress (or the last call) executes
ExecutedList ==
    IF op = "run" THEN StagesToRun(skip)
    ELSE Remaining(prior.record.completed_stages)

\* C29: there is no rollback: when a stage fails, run and resume invoke
\* neither the cleanup handler nor any undo action (no handler, no external
\* call, no change of the environment), and the artifact keys written by
\* previously completed stages remain unchanged in the persisted state; the
\* cleanup handler is invoked only after every other stage in the list being
\* executed has completed.
C29_NoRollback ==
    /\ [][(pc = "fail" /\ pc' = "idle" /\ result'.kind = "failure") =>
            /\ invoked' = invoked
            /\ calls' = calls
            /\ env' = env
            /\ store'[mid].completed_stages = store[mid].completed_stages
            /\ \A i \in 1..Len(store[mid].completed_stages) :
                 \A k \in ArtifactKeys(store[mid].completed_stages[i]) :
                    k \in DOMAIN store[mid].artifacts =>
                       /\ k \in DOMAIN store'[mid].artifacts
                       /\ store'[mid].artifacts[k] = store[mid].artifacts[k]]_vars
    /\ []((op \in {"run", "resume"} /\ InSeq("cleanup", invoked)) =>
            /\ Last(invoked) = "cleanup"
            /\ todo = << >>
            /\ \A i \in 1..Len(ExecutedList) :
                 ExecutedList[i] # "cleanup" =>
                    InSeq(ExecutedList[i], store[mid].completed_stages))

\* a stage failed after earlier stages had persisted their artifacts: the
\* call returned failure, cleanup was not invoked, the artifacts are kept
C29_Witness ==
    /\ pc = "idle"
    /\ result.kind = "failure"
    /\ result.failed_stage = "upload_s3"
    /\ ~InSeq("cleanup", invoked)
    /\ "qcow2_paths" \in DOMAIN store[mid].artifacts
    /\ env.qcow2 # {}

\* C23: executing a stage name that has no handler fails with a
\* not-implemented condition without invoking any handler or changing the
\* state (in memory, persisted, or the environment); the orchestrator does
\* not retry it: the failure is recorded and the call returns failure naming
\* that stage, so no handler is ever invoked for it. Every name in the stage
\* registry has a handler, so the condition cannot arise over the registry.
C23_UnhandledStageFails ==
    /\ [](\A i \in 1..Len(STAGES) : STAGES[i] \in Handlers)
    /\ [](\A i \in 1..Len(invoked) : invoked[i] \in Handlers)
    /\ [][(pc = "exec" /\ state.current_stage \notin Handlers) =>
            /\ pc' = "fail"
            /\ exc' = "Stage not implemented yet"
            /\ invoked' = invoked
            /\ state' = state
            /\ store' = store
            /\ env' = env
            /\ calls' = calls]_vars
    /\ [][(pc = "fail" /\ state.current_stage \notin Handlers) =>
            /\ pc' = "idle"
            /\ result'.kind = "failure"
            /\ result'.failed_stage = state.current_stage
            /\ result'.error = "Stage not implemented yet"
            /\ invoked' = invoked
            /\ store'[mid].completed_stages = state.completed_stages]_vars

\* a handled stage completed, then the unhandled one failed the call
C23_Witness ==
    /\ pc = "idle"
    /\ result.kind = "failure"
    /\ result.failed_stage = NoSuchStage
    /\ result.error = "Stage not implemented yet"
    /\ Len(invoked) = 1
    /\ result.completed_stages = invoked

\* the drivers a registration patch holds a service entry for
PatchDrivers(patch) ==
    {d \in DriverNames : \E i \in 1..Len(patch) : patch[i].key = ServiceKey(d)}

\* C24: the Layer 1 registry patch contains a service entry for exactly the
\* drivers whose binary is present in the guest after the upload step
\* (pre-existing or freshly copied from the ISO).
C24_PatchCoversPresentDrivers ==
    [][(eng.pc = "upload_sys" /\ eng'.pc = "virt-win-reg") =>
          PatchDrivers(eng'.patch) = guest'.sys]_vars

\* every key below a service key comes after the section of its parent key
ParentBeforeChild(sections) ==
    \A i \in 1..Len(sections) :
        Len(sections[i].key) > Len(ServiceKey("viostor")) =>
            \E j \in 1..(i - 1) :
                sections[j].key = SubSeq(sections[i].key, 1, Len(sections[i].key) - 1)

\* C25: in the driver registration patch built by _build_driver_reg, for
\* every set of drivers, each key section appears after the section of its
\* parent key (service key before Parameters, Parameters before
\* Parameters\PnpInterface, service key before Enum), and the units obtained
\* when the patch text is split for the fallback merge are the same sections
\* in the same order, merged one by one in that order.
C25_ParentBeforeChild ==
    /\ [](\A drivers \in SUBSET DriverNames :
            LET patch == BuildDriverReg(drivers)
            IN  /\ ParentBeforeChild(patch)
                /\ PatchDrivers(patch) = drivers
                /\ SplitSections(RegLines(patch)) = patch)
    /\ [][(eng.pc = "parts" /\ eng.after = "stage") =>
            LET units == SplitSections(RegLines(eng.patch))
                u     == units[eng.k]
            IN  /\ ParentBeforeChild(units)
                /\ eng'.k = eng.k + 1
                /\ Last(eng'.mlog).unit = eng.k
                /\ Last(eng'.mlog).ok =>
                      eng'.hive_local = ApplySection(eng.hive_local, u)
                /\ Len(u.key) > Len(ServiceKey("viostor")) =>
                      \E j \in 1..(eng.k - 1) :
                          /\ units[j].key = SubSeq(u.key, 1, Len(u.key) - 1)
                          /\ eng.mlog[j + 3].unit = j]_vars

\* the fallback merge of a patch for three drivers is about to merge a
\* Parameters\PnpInterface section, its parent section having been merged
C25_Witness ==
    /\ eng.pc = "parts"
    /\ eng.after = "stage"
    /\ PatchDrivers(eng.patch) = DriverNames
    /\ eng.k = 7
    /\ Last(eng.patch[eng.k].key) = "PnpInterface"
    /\ Last(eng.mlog).ok
    /\ \E i \in 1..Len(eng.hive_local) :
          eng.hive_local[i].key = SubSeq(eng.patch[eng.k].key, 1, 4)

\* HKLM\SYSTEM\ControlSet001\Services\Tcpip\Parameters\Interfaces\<guid>
InterfaceKey(g) ==
    <<"ControlSet001", "Services", "Tcpip", "Parameters", "Interfaces", g>>

\* the interfaces a patch holds a DHCP section for
PatchInterfaces(patch) ==
    {g \in guest.guids : \E i \in 1..Len(patch) : patch[i].key = InterfaceKey(g)}

\* C27: when no network-interface identifier can be discovered offline (both
\* discovery methods fail or return none), ensure_all_virtio_drivers builds
\* and merges no DHCP patch, still has injected the firstboot script, and
\* completes successfully; when identifiers are discovered, it merges one
\* DHCP section per distinct identifier through the same merge-with-fallback
\* procedure as the driver patch.
C27_DhcpOnlyForDiscoveredInterfaces ==
    /\ [][eng.pc = "guids" =>
            /\ PnputilScripts # {}
            /\ guest' = guest
            /\ \/ /\ eng'.pc = "return"
                  /\ guest.guids = {} \/ eng'.failures = eng.failures + 1
                  /\ eng'.patch = eng.patch
                  /\ eng'.mlog = eng.mlog
                  /\ eng'.hive_local = eng.hive_local
               \/ /\ eng'.pc = "virt-win-reg"
                  /\ eng'.after = "return"
                  /\ guest.guids # {}
                  /\ Len(eng'.patch) = Cardinality(guest.guids)
                  /\ PatchInterfaces(eng'.patch) = guest.guids]_vars
    /\ [][eng.pc = "return" =>
            /\ eng'.pc = "returned"
            /\ eng'.error = None
            /\ guest' = guest]_vars
    /\ []((eng.pc = "returned" /\ guest.guids = {}) =>
            /\ PnputilScripts # {}
            /\ \A i \in 1..Len(guest.hive) : Len(guest.hive[i].key) <= 5)
    /\ []((eng.pc \in InMerge /\ eng.after = "return") =>
            /\ PatchInterfaces(eng.patch) = guest.guids
            /\ Len(eng.patch) = Cardinality(guest.guids)
            /\ StrategyOrder(eng.mlog, Len(eng.patch)))

\* a guest with two interfaces on which both discovery methods failed: the
\* engine returned with the firstboot script in place and no DHCP section
C27_Witness ==
    /\ eng.pc = "returned"
    /\ eng.error = None
    /\ eng.after = "stage"
    /\ Cardinality(guest.guids) = 2
    /\ PnputilScripts # {}
    /\ \A i \in 1..Len(guest.hive) : Len(guest.hive[i].key) <= 5

\* the value of a hexadecimal digit
HexValue(c) == (CHOOSE i \in 1..Len(HexDigits) : HexDigits[i] = c) - 1

\* the byte a two-digit item denotes
ByteOf(item) == 16 * HexValue(item[1]) + HexValue(item[2])

\* the little-endian 16-bit code units of a list of items
UnitsOf(items) ==
    [ i \in 1..(Len(items) \div 2) |->
        ByteOf(items[2 * i - 1]) + 256 * ByteOf(items[2 * i]) ]

RECURSIVE DecodeUtf16(_)
\* the scalar values of a sequence of UTF-16 code units
DecodeUtf16(units) ==
    IF units = << >> THEN << >>
    ELSE IF /\ Len(units) >= 2
            /\ units[1] \in 55296..56319
            /\ units[2] \in 56320..57343
         THEN << 65536 + (units[1] - 55296) * 1024 + (units[2] - 56320) >>
                 \o DecodeUtf16(Tail(Tail(units)))
         ELSE << units[1] >> \o DecodeUtf16(Tail(units))

\* the text a REG_EXPAND_SZ value denotes: its code units without the final
\* null code unit
DecodeExpandSz(out) ==
    LET units == UnitsOf(out.items)
    IN  DecodeUtf16(SubSeq(units, 1, Len(units) - 1))

\* number of UTF-16 code units of a text
Utf16Len(s) == Len(EncodeUtf16Le(s)) \div 2

\* C26: round trip of the expandable-string encoding: for every text value
\* including the empty string, _str_to_reg_expand_sz yields the tag "hex(2):"
\* followed by the comma-separated two-digit lowercase hex bytes of the text
\* in UTF-16 little-endian plus one terminating null code unit, and decoding
\* those bytes (dropping the final null code unit) yields the original text.
C26_ExpandSzRoundTrip ==
    enc.called =>
        LET items == enc.out.items
            units == UnitsOf(items)
        IN  /\ enc.out.tag = "hex(2):"
            /\ \A i \in 1..Len(items) :
                  /\ Len(items[i]) = 2
                  /\ \A j \in 1..2 : \E h \in 1..Len(HexDigits) : items[i][j] = HexDigits[h]
            /\ Len(items) = 2 * (Utf16Len(enc.s) + 1)
            /\ Len(units) >= Len(enc.s) + 1
            /\ units[Len(units)] = 0
            /\ items[Len(items)] = <<"0", "0">> /\ items[Len(items) - 1] = <<"0", "0">>
            /\ (\A i \in 1..Len(enc.s) : enc.s[i] < 65536) =>
                  /\ Len(units) = Len(enc.s) + 1
                  /\ \A i \in 1..Len(enc.s) : units[i] = enc.s[i]
            /\ DecodeExpandSz(enc.out) = enc.s

\* a text with a character outside the BMP, a NUL and the euro sign
C26_Witness ==
    /\ enc.called
    /\ enc.s = << 128512, 0, 8364 >>
    /\ enc.out.items = << <<"3", "d">>, <<"d", "8">>, <<"0", "0">>, <<"d", "e">>,
                          <<"0", "0">>, <<"0", "0">>, <<"a", "c">>, <<"2", "0">>,
                          <<"0", "0">>, <<"0", "0">> >>

\* the stage list of the MigrationPipeline docstring ("executed in order")
DocstringStages ==
    << "validate", "snapshot", "export", "clean_tools", "inject_virtio",
       "convert", "fix_bootloader", "fix_network",
       "upload_s3", "import_scw", "verify", "cleanup" >>

InFlight(rec) ==
    IF rec.current_stage # "" /\ ~InSeq(rec.current_stage, rec.completed_stages)
    THEN rec.current_stage
    ELSE None

\* C32: crash consistency of the checkpoint: a stage enters the persisted
\* completed_stages only when its handler has returned normally; when the
\* process stops during run or resume the stage in flight (also one whose
\* handler had returned but was not yet saved) is not in the persisted
\* completed_stages; and a later resume of that migration, once it returns,
\* has invoked the handler of that stage again.
C32_CrashConsistency ==
    /\ [][\A m \in DOMAIN store' :
            (m \in DOMAIN store
               /\ store'[m].completed_stages # store[m].completed_stages) =>
                  /\ pc = "ok"
                  /\ Last(invoked) = state.current_stage
                  /\ store'[m].completed_stages =
                        Append(store[m].completed_stages, state.current_stage)]_vars
    /\ [][(pc \in {"exec", "ok", "fail"} /\ result'.kind = "stopped") =>
            /\ store' = store
            /\ InFlight(store[mid]) = state.current_stage
            /\ InSeq(state.current_stage, Remaining(store[mid].completed_stages))]_vars
    /\ []((/\ op = "resume"
           /\ prior.found
           /\ prior.failed = None
           /\ InFlight(prior.record) # None
           /\ pc = "idle"
           /\ result.kind \in {"success", "failure"}) =>
             InSeq(InFlight(prior.record), invoked))

\* every attempt of the list failed
AllFailed(t) == \A k \in 1..Len(t) : ~t[k].ok

\* C33: in inject_virtio the alternate virt-v2v invocations are attempted in
\* the fixed order of v2v_syntaxes, a failed attempt is caught and followed by
\* the next syntax, no syntax is attempted after one succeeded, the
\* virt-customize fallback injector is invoked exactly when virt-v2v is
\* unavailable or all three attempts failed, and the original boot disk is
\* replaced only after a successful virt-v2v attempt.
C33_V2vSyntaxOrderAndFallback ==
    \A p \in MigrationIds :
        LET l == inj[p]
            t == l.tried
            exhausted == Len(t) = Len(V2vSyntaxes) /\ AllFailed(t)
        IN  /\ Len(t) <= Len(V2vSyntaxes)
            /\ \A k \in 1..Len(t) : t[k].syntax = V2vSyntaxes[k]
            /\ \A k \in 1..(Len(t) - 1) : ~t[k].ok
            /\ l.pc \in {"v2v", "v2v_running"} => (AllFailed(t) /\ l.i = Len(t) + 1)
            /\ l.v2v_ok <=> (t # << >> /\ Last(t).ok)
            /\ ~l.installed => t = << >>
            /\ l.fallback => (~l.installed \/ exhausted)
            /\ (l.pc \in {"returned", "raised"} /\ (~l.installed \/ exhausted))
                  => l.fallback
            /\ l.pc = "fallback" => (~l.installed \/ exhausted)
            /\ l.replaced => (l.v2v_ok /\ ~l.fallback /\ l.pc = "returned")

\* one call ended in the fallback after its three attempts failed in order,
\* the other replaced its boot disk after the second syntax succeeded
C33_Witness ==
    \E p, q \in MigrationIds :
        /\ inj[p].pc = "returned"
        /\ inj[p].fallback
        /\ Len(inj[p].tried) = 3
        /\ ~inj[p].replaced
        /\ inj[q].pc = "returned"
        /\ inj[q].replaced
        /\ Len(inj[q].tried) = 2

\* the vmdk.unlink() invocations among the calls c of the convert handler
Unlinks(c) == SelectSeq(c, LAMBDA x : x[1] = "unlink")

\* C34: the convert stage deletes source VMDK files only after every disk of
\* vmdk_paths has been converted (or skipped as already valid) and
\* qcow2_paths has been recorded: if a conversion fails, no source VMDK has
\* been deleted and the artifacts (qcow2_paths among them) are as before the
\* call; when it returns, every unlink follows the last conversion, every
\* disk has a valid target and qcow2_paths lists them all.
C34_VmdkDeletedAfterAllConverted ==
    [][ ( /\ pc = "exec"
          /\ state.current_stage = "convert"
          /\ invoked' = Append(invoked, "convert") )
        => LET paths == Get(state.artifacts, "vmdk_paths", << >>)
           IN  /\ pc' = "fail" =>
                     /\ env'.vmdk = env.vmdk
                     /\ Unlinks(calls') = << >>
                     /\ state'.artifacts = state.artifacts
               /\ (env'.vmdk # env.vmdk \/ Unlinks(calls') # << >>) =>
                     /\ pc' = "ok"
                     /\ calls' = Conversions(calls') \o Unlinks(calls')
                     /\ Unlinks(calls') =
                           UnlinkCalls(SelectSeq(paths, LAMBDA p : p \in env.vmdk))
                     /\ "qcow2_paths" \in DOMAIN state'.artifacts
                     /\ Len(state'.artifacts["qcow2_paths"]) = Len(paths)
                     /\ \A i \in 1..Len(paths) : QcowOf(paths[i]) \in env'.qcow2
                     /\ \A i \in 1..Len(paths) : paths[i] \notin env'.vmdk ]_vars

\* the second of two conversions failed: both source VMDKs are still there
\* and no qcow2_paths has been recorded
C34_Witness ==
    /\ pc = "fail"
    /\ state.current_stage = "convert"
    /\ Len(Conversions(calls)) = 2
    /\ Cardinality(env.vmdk) = 2
    /\ Cardinality(env.qcow2) = 1
    /\ "qcow2_paths" \notin DOMAIN state.artifacts

\* C35: the cleanup stage deletes cloud transit objects only when the
\* artifact bag holds a created image id (scaleway_image_id) together with
\* the upload keys and the bucket, and then only the objects named by
\* s3_keys; if the image id is absent no delete_object call is made and no
\* transit object is deleted.
C35_TransitDeletedOnlyWithImage ==
    [][ (pc = "exec" /\ state.current_stage = "cleanup") =>
          LET a       == state.artifacts
              s3_keys == Get(a, "s3_keys", << >>)
              others  == 1 + (IF "snapshot_name" \in DOMAIN a THEN 1 ELSE 0)
              image   == Get(a, "scaleway_image_id", NoId) # NoId
          IN  /\ env'.remote \subseteq env.remote
              /\ (env.remote \ env'.remote) \subseteq Range(s3_keys)
              /\ (env'.remote # env.remote \/ Len(calls') > others) =>
                    /\ image
                    /\ s3_keys # << >>
                    /\ "s3_bucket" \in DOMAIN a
                    /\ Len(calls') = others + Len(s3_keys)
                    /\ \A i \in 1..Len(s3_keys) :
                          calls'[others + i] = <<"delete_object", s3_keys[i]>>
              /\ ~image =>
                    /\ env'.remote = env.remote
                    /\ env'.remote_bad = env.remote_bad
                    /\ Len(calls') = others ]_vars

\* cleanup has returned on a bag with upload keys and bucket but no image id:
\* the two transit objects are still in the bucket
C35_Witness ==
    /\ pc = "ok"
    /\ state.current_stage = "cleanup"
    /\ invoked = <<"cleanup">>
    /\ "scaleway_image_id" \notin DOMAIN state.artifacts
    /\ "s3_bucket" \in DOMAIN state.artifacts
    /\ "s3_keys" \in DOMAIN state.artifacts
    /\ Len(state.artifacts["s3_keys"]) = 2
    /\ Range(state.artifacts["s3_keys"]) \subseteq env.remote


\* ---------------------------------------------------------------------------
\* _extract_drivers_from_iso: mount, per-driver copy, unmount
\* ---------------------------------------------------------------------------

\* the steps of the log of one kind
StepsOf(log, kind) == {i \in 1..Len(log) : log[i].step = kind}

\* _extract_drivers_from_iso has been left, by return or by exception
Extracted == eng.xlog # << >> /\ eng.pc \notin {"extract", "copy", "umount"}

\* C36: once the driver ISO is mounted, every exit of _extract_drivers_from_iso
\* (normal return or failing copy) has invoked the unmount, exactly once and as
\* the last step; a driver missing from the ISO is skipped and the drivers after
\* it are still handled, so that without a failing copy every driver of
\* DRIVER_DEFS was visited in order and exactly the drivers of the ISO were
\* extracted; a failing mount raises with no unmount attempted.
C36_UnmountOnEveryExit ==
    Extracted =>
        LET log == eng.xlog
        IN  IF log[1].step = "mount"
            THEN /\ StepsOf(log, "umount") = {Len(log)}
                 /\ \A i \in StepsOf(log, "cp_failed") :
                        i = Len(log) - 1 /\ eng.pc = "raised"
                 /\ \A i \in StepsOf(log, "skip") :
                        /\ log[i].drv \notin eng.iso
                        /\ log[i + 1].step \in
                             IF log[i].drv = DriverOrder[Len(DriverOrder)]
                             THEN {"umount"} ELSE {"cp", "cp_failed", "skip"}
                 /\ StepsOf(log, "cp_failed") = {} =>
                        /\ Len(log) = Len(DriverOrder) + 2
                        /\ \A i \in 1..Len(DriverOrder) :
                               /\ log[i + 1].drv = DriverOrder[i]
                               /\ log[i + 1].step =
                                    IF DriverOrder[i] \in eng.iso THEN "cp" ELSE "skip"
                        /\ eng.extracted = eng.iso
            ELSE /\ log = <<Extraction("mount_failed", "")>>
                 /\ eng.pc = "raised"
                 /\ eng.error = "Cannot mount virtio-win ISO"

\* a driver was missing and skipped, the copy of the next one failed, and the
\* ISO was unmounted before the exception left the call
C36_Witness ==
    /\ eng.pc = "raised"
    /\ Len(eng.xlog) = 5
    /\ eng.xlog[3] = Extraction("skip", "vioscsi")
    /\ eng.xlog[4] = Extraction("cp_failed", "netkvm")
    /\ eng.xlog[5] = Extraction("umount", "")


\* ---------------------------------------------------------------------------
\* ensure_all_virtio_drivers: a driver ISO that cannot be mounted
\* ---------------------------------------------------------------------------

\* the call in progress ended on the failed mount of the driver ISO
MountRaised ==
    /\ eng.pc = "raised"
    /\ eng.xlog = <<Extraction("mount_failed", "")>>

\* the call has not yet got past the mount of the driver ISO
BeforeMount == eng.pc \in {"idle", "returned", "raised", "extract"}

\* C37: if the driver ISO cannot be mounted, ensure_all_virtio_drivers raises
\* before any write to the guest image: no step of a call up to and including
\* the mount writes to the image (only the read-only discovery has run), the
\* mount is attempted right after the discovery, a failed mount ends the call
\* with the mount error, and in the state it leaves no registry merge has been
\* attempted and nothing has been extracted, uploaded or staged by this call.
C37_MountFailureBeforeAnyWrite ==
    /\ [][BeforeMount => guest' = guest]_vars
    /\ [][eng'.pc = "extract" => BeforeMount]_vars
    /\ [][(eng.pc = "extract" /\ eng'.xlog = <<Extraction("mount_failed", "")>>) =>
              /\ eng'.pc = "raised"
              /\ eng'.error = "Cannot mount virtio-win ISO"]_vars
    /\ [](eng.pc = "extract" => eng.xlog = << >>)
    /\ [](MountRaised => eng.mlog = << >> /\ eng.extracted = {})

\* a second call fails on the mount, on an image to which the first call had
\* uploaded drivers and staged packages
C37_Witness ==
    /\ MountRaised
    /\ eng.runs = 2
    /\ guest.sys # {}
    /\ guest.drivers # {}

====
